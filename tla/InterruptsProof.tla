--------------------------- MODULE InterruptsProof ----------------------------
(***************************************************************************)
(* A control-C never ends the program, never strikes in the middle of a    *)
(* section or a collection, and *throw finds only live frames, however     *)
(* deep the stack and whatever the hook throws.                            *)
(***************************************************************************)
EXTENDS Interrupts, SequenceTheorems, TLAPS

(* Sections and collections, during which interrupts are deferred. *)
Bar(a) == a.kind \in {"section", "gc"}
Open(s) == \A i \in 1..Len(s) : ~Bar(s[i])

(* A collection is innermost, and what will let interrupts in has neither  *)
(* section nor collection below it.                                        *)
Nested(s) ==
    /\ \A i \in 1..(Len(s) - 1) : s[i].kind # "gc"
    /\ \A i \in 1..Len(s) : (Bar(s[i]) /\ ~s[i].flag) =>
          \A j \in 1..(i - 1) : ~Bar(s[j])

(* What the flags say of the place of control.  The inductive invariant    *)
(* has three parts: types, the chain of *catch frames, and this.           *)
Flags ==
    /\ pc = "run" => Nested(stack) /\ (errjmpOk <=> Top.kind # "gc")
    /\ pc \in {"reset", "prompt"} => errjmpOk /\ catchFramep = 0
    /\ pc \in {"start", "driver", "reset"} => nointerrupt
    /\ StrikesBetween
    /\ NeverKilled

IInv == TypeOK /\ CatchesLive /\ Flags

-----------------------------------------------------------------------------
(* Sequences: leaving activations and entering one. *)

LEMMA Leave ==
    ASSUME NEW S, NEW s \in Seq(S), NEW n \in 0..Len(s)
    PROVE  /\ SubSeq(s, 1, n) \in Seq(S)
           /\ Len(SubSeq(s, 1, n)) = n
           /\ \A i \in 1..n : SubSeq(s, 1, n)[i] = s[i]
<1>1. \A i \in 1..n : s[i] \in S
  OBVIOUS
<1> QED BY <1>1, SubSeqProperties

LEMMA Enter ==
    ASSUME NEW S, NEW s \in Seq(S), NEW x \in S
    PROVE  /\ Append(s, x) \in Seq(S)
           /\ Len(Append(s, x)) = Len(s) + 1
           /\ \A i \in 1..Len(s) : Append(s, x)[i] = s[i]
           /\ Append(s, x)[Len(s) + 1] = x
BY AppendProperties

LEMMA NestedLeave ==
    ASSUME NEW S, NEW s \in Seq(S), NEW n \in 0..Len(s), Nested(s)
    PROVE  /\ Nested(SubSeq(s, 1, n))
           /\ Open(s) => Open(SubSeq(s, 1, n))
           /\ n < Len(s) => \A i \in 1..n : SubSeq(s, 1, n)[i].kind # "gc"
BY Leave DEF Nested, Open

LEMMA NestedEnter ==
    ASSUME NEW S, NEW s \in Seq(S), NEW x \in S, Nested(s),
           s # <<>> => s[Len(s)].kind # "gc",
           (Bar(x) /\ ~x.flag) => Open(s)
    PROVE  /\ Nested(Append(s, x))
           /\ (Open(s) /\ ~Bar(x)) => Open(Append(s, x))
<1> DEFINE t == Append(s, x)
<1>1. /\ Len(t) = Len(s) + 1
      /\ \A i \in 1..Len(s) : t[i] = s[i]
      /\ t[Len(s) + 1] = x
  BY Enter
<1>2. Len(s) \in Nat /\ (s # <<>> => Len(s) > 0)
  BY EmptySeq
<1>3. \A i \in 1..(Len(t) - 1) : t[i].kind # "gc"
  <2> SUFFICES ASSUME NEW i \in 1..Len(s) PROVE s[i].kind # "gc"
    BY <1>1, <1>2
  <2>1. CASE i = Len(s)
    BY <2>1, <1>2
  <2>2. CASE i # Len(s)
    BY <2>2, <1>2 DEF Nested
  <2> QED BY <2>1, <2>2
<1>4. ASSUME NEW i \in 1..Len(t), Bar(t[i]), ~t[i].flag, NEW j \in 1..(i - 1)
      PROVE  ~Bar(t[j])
  <2>1. CASE i = Len(s) + 1
    BY <2>1, <1>1, <1>2, <1>4 DEF Open
  <2>2. CASE i # Len(s) + 1
    BY SMTT(30), <2>2, <1>1, <1>2, <1>4 DEF Nested
  <2> QED BY <2>1, <2>2
<1>5. (Open(s) /\ ~Bar(x)) => Open(t)
  BY <1>1, <1>2 DEF Open
<1> QED BY <1>3, <1>4, <1>5 DEF Nested

-----------------------------------------------------------------------------
(* Activations, and the innermost one. *)

LEMMA Kinds ==
    ASSUME NEW a \in Activations
    PROVE  /\ a.kind \in {"section", "gc", "catch", "hook", "allocation"}
           /\ Bar(a) => a.flag \in BOOLEAN
           /\ a.kind = "section" => a.cells \in 0..MaxCells
           /\ a.kind = "catch" => a.next \in 0..MaxDepth
BY DEF Activations, Bar, Hook, Allocation

LEMMA Made ==
    /\ \A f \in BOOLEAN, n \in 0..MaxCells : Section(f, n) \in Activations
    /\ \A f \in BOOLEAN, why \in {"newcell", "user"} : Collection(f, why) \in Activations
    /\ \A tag \in Tags, d \in 0..MaxDepth : Catch(tag, d) \in Activations
    /\ Hook \in Activations /\ Allocation \in Activations
    /\ 0 \in 0..MaxCells
BY ConstantsAssumption DEF Activations, Section, Collection, Catch, Hook, Allocation

LEMMA TopFacts ==
    ASSUME TypeOK, stack # <<>>
    PROVE  /\ Len(stack) \in Nat \ {0} /\ Top = stack[Len(stack)] /\ Top \in Activations
           /\ Below \in Seq(Activations) /\ Len(Below) = Len(stack) - 1
           /\ \A i \in 1..(Len(stack) - 1) : Below[i] = stack[i]
<1>1. Len(stack) \in Nat \ {0}
  BY EmptySeq DEF TypeOK
<1>2. Top = stack[Len(stack)] /\ Top \in Activations
  BY <1>1 DEF Top, TypeOK
<1>3. Len(stack) - 1 \in 0..Len(stack)
  BY <1>1
<1> QED BY <1>1, <1>2, <1>3, Leave DEF Below, TypeOK

-----------------------------------------------------------------------------
(* err leaves everything. *)
LEMMA ErrStep ==
    ASSUME TypeOK, NEW why, NEW ok, Err(why, ok), why = "interrupt" => ok,
           differed' \in BOOLEAN, errjmpOk' \in BOOLEAN, pending' \in BOOLEAN,
           catchFramep' = catchFramep
    PROVE  IInv'
<1>1. nointerrupt' = TRUE /\ stack' = <<>> /\ pc' \in {"driver", "fatal"}
  BY DEF Err
<1>2. TypeOK'
  BY <1>1, ConstantsAssumption, EmptySeq DEF TypeOK
<1> QED BY <1>1, <1>2 DEF IInv, CatchesLive, Flags, StrikesBetween, NeverKilled

(* Anything else leaves a stack on which the flags are right. *)
LEMMA RunStep ==
    ASSUME TypeOK', CatchesLive', pc' = "run", Nested(stack'),
           errjmpOk' <=> Top'.kind # "gc", ~nointerrupt' => Open(stack')
    PROVE  IInv'
<1>1. StrikesBetween'
  BY DEF StrikesBetween, Open, Bar, TypeOK
<1> QED BY <1>1 DEF IInv, Flags, NeverKilled

LEMMA ChainLeave ==
    ASSUME NEW S, NEW s \in Seq(S), NEW c, Chain(s, c), NEW n \in 0..Len(s),
           NEW d, IsInnermost(s, d, n)
    PROVE  Chain(SubSeq(s, 1, n), d)
<1> DEFINE t == SubSeq(s, 1, n)
<1>1. Len(t) = n /\ \A i \in 1..n : t[i] = s[i]
  BY Leave
<1> HIDE DEF t
<1>2. IsInnermost(t, d, Len(t))
  BY <1>1 DEF IsInnermost
<1>3. ASSUME NEW i \in 1..n, s[i].kind = "catch"
      PROVE  IsInnermost(t, s[i].next, i - 1)
  <2>1. IsInnermost(s, s[i].next, i - 1)
    BY <1>3 DEF Chain
  <2> QED BY SMTT(30), <2>1, <1>1, <1>3 DEF IsInnermost
<1>4. Chain(t, d)
  BY <1>1, <1>2, <1>3 DEF Chain
<1> QED BY <1>4 DEF t

LEMMA ChainEnter ==
    ASSUME NEW S, NEW s \in Seq(S), NEW c, Chain(s, c), NEW x \in S
    PROVE  /\ x.kind # "catch" => Chain(Append(s, x), c)
           /\ (x.kind = "catch" /\ x.next = c) => Chain(Append(s, x), Len(s) + 1)
<1> DEFINE t == Append(s, x)
<1>1. /\ Len(t) = Len(s) + 1 /\ Len(s) \in Nat
      /\ \A i \in 1..Len(s) : t[i] = s[i]
      /\ t[Len(s) + 1] = x
  BY Enter
<1> HIDE DEF t
<1>2. IsInnermost(s, c, Len(s))
  BY DEF Chain
<1>3. ASSUME NEW i \in 1..Len(s), s[i].kind = "catch"
      PROVE  IsInnermost(t, s[i].next, i - 1)
  <2>1. IsInnermost(s, s[i].next, i - 1)
    BY <1>3 DEF Chain
  <2> QED BY <2>1, <1>1, <1>3 DEF IsInnermost
<1>4. x.kind # "catch" => Chain(t, c)
  <2>1. x.kind # "catch" => IsInnermost(t, c, Len(t))
    BY <1>1, <1>2 DEF IsInnermost
  <2> QED BY <1>1, <1>3, <2>1 DEF Chain
<1>5. (x.kind = "catch" /\ x.next = c) => Chain(t, Len(s) + 1)
  <2>1. IsInnermost(t, c, Len(s))
    BY <1>1, <1>2 DEF IsInnermost
  <2>2. x.kind = "catch" => IsInnermost(t, Len(s) + 1, Len(t))
    BY <1>1 DEF IsInnermost
  <2> QED BY <1>1, <1>3, <2>1, <2>2 DEF Chain
<1> QED BY <1>4, <1>5 DEF t

(* What is below the last activation. *)
LEMMA BelowFacts ==
    ASSUME IInv, pc = "run", stack # <<>>
    PROVE  /\ Nested(Below) /\ (Open(stack) => Open(Below))
           /\ \A i \in 1..Len(Below) : Below[i].kind # "gc"
           /\ (Bar(Top) /\ ~Top.flag) => Open(Below)
           /\ Top.kind # "catch" => Chain(Below, catchFramep)
<1>1. stack \in Seq(Activations) /\ Len(stack) - 1 \in 0..Len(stack) /\ Nested(stack)
  BY TopFacts DEF IInv, TypeOK, Flags
<1>2. /\ Nested(Below) /\ (Open(stack) => Open(Below))
      /\ \A i \in 1..(Len(stack) - 1) : Below[i].kind # "gc"
  BY <1>1, NestedLeave DEF Below
<1>3. (Bar(Top) /\ ~Top.flag) => Open(Below)
  BY <1>1, TopFacts DEF IInv, Nested, Open
<1>4. ASSUME Top.kind # "catch" PROVE Chain(Below, catchFramep)
  <2>1. Chain(stack, catchFramep)
    BY DEF IInv, CatchesLive
  <2>2. IsInnermost(stack, catchFramep, Len(stack) - 1)
    <3>1. catchFramep # Len(stack)
      BY <2>1, <1>4, TopFacts DEF IInv, Chain, IsInnermost
    <3> QED BY <2>1, <3>1, TopFacts DEF IInv, Chain, IsInnermost
  <2> QED BY <1>1, <2>1, <2>2, ChainLeave DEF Below
<1> QED BY <1>2, <1>3, <1>4, TopFacts DEF IInv

(* One activation more, on a stack s that is the present one or what is    *)
(* below its last activation.                                              *)
LEMMA Pushed ==
    ASSUME NEW s \in Seq(Activations), Nested(s), Len(s) <= MaxDepth,
           \A i \in 1..Len(s) : s[i].kind # "gc",
           NEW x \in Activations, (Bar(x) /\ ~x.flag) => Open(s)
    PROVE  /\ Append(s, x) \in Seq(Activations)
           /\ Nested(Append(s, x)) /\ Append(s, x) # <<>>
           /\ Len(Append(s, x)) = Len(s) + 1 /\ Len(s) \in Nat
           /\ Append(s, x)[Len(s) + 1] = x
           /\ x.kind # "gc" => \A i \in 1..(Len(s) + 1) : Append(s, x)[i].kind # "gc"
           /\ (Open(s) /\ ~Bar(x)) => Open(Append(s, x))
<1>1. Len(s) \in Nat /\ (s # <<>> => Len(s) > 0)
  BY EmptySeq
<1>2. s # <<>> => s[Len(s)].kind # "gc"
  BY <1>1
<1>3. Nested(Append(s, x)) /\ ((Open(s) /\ ~Bar(x)) => Open(Append(s, x)))
  BY <1>2, NestedEnter
<1>4. /\ Append(s, x) \in Seq(Activations)
      /\ Len(Append(s, x)) = Len(s) + 1
      /\ \A i \in 1..Len(s) : Append(s, x)[i] = s[i]
      /\ Append(s, x)[Len(s) + 1] = x
  BY Enter
<1>5. Append(s, x) # <<>>
  BY SMTT(30), <1>1, <1>4, EmptySeq
<1> QED BY <1>1, <1>3, <1>4, <1>5

(* While the program's code runs. *)
LEMMA EvaluatingFacts ==
    ASSUME IInv, Evaluating
    PROVE  /\ pc = "run" /\ errjmpOk /\ stack \in Seq(Activations) /\ Nested(stack)
           /\ \A i \in 1..Len(stack) : stack[i].kind # "gc"
           /\ Len(stack) \in Nat
           /\ ~nointerrupt => Open(stack)
           /\ Chain(stack, catchFramep)
<1>1. pc = "run" /\ Top.kind # "gc" /\ stack \in Seq(Activations) /\ Nested(stack)
  BY DEF Evaluating, On, IInv, TypeOK, Flags
<1>2. \A i \in 1..Len(stack) : stack[i].kind # "gc"
  <2>1. Len(stack) \in Nat
    BY <1>1
  <2>2. stack # <<>> => stack[Len(stack)].kind # "gc"
    BY <1>1 DEF Top
  <2>3. stack = <<>> => Len(stack) = 0
    OBVIOUS
  <2> QED BY <1>1, <2>1, <2>2, <2>3 DEF Nested
<1>3. ~nointerrupt => Open(stack)
  BY <1>1 DEF IInv, Flags, StrikesBetween, Open, Bar, TypeOK
<1> QED BY <1>1, <1>2, <1>3 DEF IInv, Flags, CatchesLive

-----------------------------------------------------------------------------
(* The steps. *)

LEMMA DriverStep ==
    ASSUME IInv, SetHandler \/ Reset \/ Enable \/ Prompt PROVE IInv'
<1> USE ConstantsAssumption
<1>1. CASE SetHandler \/ Reset \/ Enable
  <2>1. pc # "run" /\ pc' # "run" /\ stack' = stack
    BY <1>1 DEF SetHandler, Reset, Enable
  <2>2. stack = <<>> /\ 0 \in 0..MaxDepth
    BY <2>1 DEF IInv, TypeOK
  <2>3. /\ pc' \in {"driver", "reset", "prompt"}
        /\ nointerrupt' \in BOOLEAN /\ differed' \in BOOLEAN
        /\ errjmpOk' \in BOOLEAN /\ pending' \in BOOLEAN /\ catchFramep' \in 0..MaxDepth
    BY <1>1, <2>2 DEF IInv, TypeOK, SetHandler, Reset, Enable
  <2>4. TypeOK'
    BY <2>1, <2>2, <2>3 DEF IInv, TypeOK
  <2>5. Flags'
    BY <1>1 DEF IInv, Flags, StrikesBetween, NeverKilled, SetHandler, Reset, Enable
  <2> QED BY <2>1, <2>4, <2>5 DEF IInv, CatchesLive
<1>2. CASE Prompt
  <2> DEFINE x == Section(nointerrupt, 0)
  <2>1. x \in Activations /\ x.kind = "section"
    BY Made DEF Section, IInv, TypeOK
  <2>2. /\ stack' = <<x>> /\ Len(stack') = 1 /\ stack'[1] = x
        /\ stack' \in Seq(Activations) /\ stack' # <<>>
    BY <1>2, <2>1 DEF Prompt
  <2> HIDE DEF x
  <2>3. pc' = "run" /\ nointerrupt' = TRUE /\ errjmpOk' = TRUE /\ catchFramep' = 0
    BY <1>2 DEF Prompt, IInv, Flags, TypeOK
  <2>4. TypeOK'
    BY <2>2, <2>3, <1>2 DEF Prompt, IInv, TypeOK
  <2>5. Nested(stack') /\ Top'.kind # "gc"
    <3>1. Nested(stack')
      BY <2>2 DEF Nested
    <3> QED BY <2>1, <2>2, <3>1 DEF Top
  <2>6. CatchesLive'
    BY <2>1, <2>2, <2>3 DEF CatchesLive, Chain, IsInnermost
  <2> QED BY <2>3, <2>4, <2>5, <2>6, RunStep
<1> QED BY <1>1, <1>2

LEMMA ControlCStep == ASSUME IInv, ControlC PROVE IInv'
<1>1. CASE nointerrupt
  <2>1. /\ UNCHANGED <<stack, nointerrupt, pc, errjmpOk, catchFramep>>
        /\ differed' = TRUE /\ pending' = TRUE
    BY <1>1 DEF ControlC
  <2> QED BY <2>1 DEF IInv, TypeOK, CatchesLive, Flags, StrikesBetween, NeverKilled, Top
<1>2. CASE ~nointerrupt
  <2>1. errjmpOk
    <3>1. pc \in {"reset", "prompt", "run"}
      BY <1>2 DEF ControlC, IInv, TypeOK, Flags
    <3>2. CASE pc = "run"
      <4>1. Open(stack)
        BY <1>2, <3>2 DEF IInv, Flags, StrikesBetween, Open, Bar, TypeOK
      <4>2. Top.kind # "gc"
        <5>1. CASE stack = <<>>
          BY <5>1 DEF Top, TopLevel
        <5>2. CASE stack # <<>>
          BY <5>2, <4>1, TopFacts DEF IInv, Open, Bar
        <5> QED BY <5>1, <5>2
      <4> QED BY <3>2, <4>2 DEF IInv, Flags
    <3> QED BY <3>1, <3>2 DEF IInv, Flags
  <2> QED BY <1>2, <2>1, ErrStep DEF ControlC, IInv, TypeOK
<1> QED BY <1>1, <1>2

LEMMA ErrorStep == ASSUME IInv, Error PROVE IInv'
BY ErrStep DEF Error, IInv, TypeOK

LEMMA EnterSectionStep == ASSUME IInv, EnterSection PROVE IInv'
<1> PICK n \in 0..MaxCells : stack' = Append(stack, Section(nointerrupt, n))
  BY DEF EnterSection
<1> DEFINE x == Section(nointerrupt, n)
<1>1. x \in Activations /\ x.kind = "section" /\ x.flag = nointerrupt
  BY Made DEF Section, IInv, TypeOK
<1>2. /\ Evaluating /\ Len(stack) <= MaxDepth /\ pc' = "run" /\ nointerrupt' = TRUE
      /\ errjmpOk' /\ catchFramep' = catchFramep
      /\ differed' = differed /\ errjmpOk' = errjmpOk /\ pending' = pending
  BY EvaluatingFacts, ConstantsAssumption DEF EnterSection, RoomFor
<1> HIDE DEF x
<1>3. /\ stack' \in Seq(Activations) /\ Nested(stack') /\ stack' # <<>>
      /\ Len(stack') = Len(stack) + 1 /\ stack'[Len(stack')] = x
  BY <1>1, <1>2, EvaluatingFacts, Pushed DEF x
<1>4. TypeOK'
  BY <1>2, <1>3, ConstantsAssumption, EvaluatingFacts DEF IInv, TypeOK
<1>5. CatchesLive'
  BY <1>1, <1>2, EvaluatingFacts, ChainEnter DEF CatchesLive, x
<1>6. Top'.kind # "gc"
  BY <1>1, <1>3 DEF Top
<1> QED BY <1>2, <1>3, <1>4, <1>5, <1>6, RunStep

(* A section or collection ends and leaves the stack at rest, which is as  *)
(* open as its flag says.                                                  *)
LEMMA RestoreStep ==
    ASSUME IInv, pc = "run", NEW flag \in BOOLEAN, NEW rest \in Seq(Activations),
           Len(rest) <= MaxDepth + 1, Nested(rest), ~flag => Open(rest),
           \A i \in 1..Len(rest) : rest[i].kind # "gc",
           Chain(rest, catchFramep),
           Restore(flag, rest, TRUE), errjmpOk' = TRUE,
           UNCHANGED <<catchFramep, pending>>
    PROVE  IInv'
<1>1. CASE ~flag /\ differed
  <2>1. differed' = FALSE /\ Err("interrupt", TRUE)
    BY <1>1 DEF Restore
  <2> QED BY <2>1, ErrStep DEF IInv, TypeOK
<1>2. CASE ~(~flag /\ differed)
  <2>1. nointerrupt' = flag /\ stack' = rest /\ UNCHANGED <<differed, pc>>
    BY <1>2 DEF Restore
  <2>2. TypeOK'
    <3>1. nointerrupt' \in BOOLEAN /\ differed' \in BOOLEAN
      BY <2>1 DEF IInv, TypeOK
    <3>2. errjmpOk' \in BOOLEAN /\ pending' \in BOOLEAN
      BY DEF IInv, TypeOK
    <3>3. /\ stack' \in Seq(Activations) /\ Len(stack') <= MaxDepth + 1
          /\ catchFramep' \in 0..MaxDepth /\ pc' = "run"
      BY <2>1 DEF IInv, TypeOK
    <3> QED BY <3>1, <3>2, <3>3 DEF TypeOK
  <2>3. CatchesLive'
    BY <2>1 DEF CatchesLive
  <2>4. Top'.kind # "gc"
    <3>1. stack' # <<>> => Len(stack') \in 1..Len(stack')
      BY <2>1, EmptySeq
    <3> QED BY <2>1, <3>1 DEF Top, TopLevel
  <2> QED BY <2>1, <2>2, <2>3, <2>4, RunStep
<1> QED BY <1>1, <1>2

LEMMA EndSectionStep == ASSUME IInv, EndSection PROVE IInv'
<1>1. stack # <<>> /\ Top.kind = "section" /\ pc = "run"
  BY DEF EndSection, On, Top, TopLevel
<1>2. errjmpOk = TRUE
  BY <1>1 DEF IInv, TypeOK, Flags
<1>3. Top \in Activations /\ Below \in Seq(Activations) /\ Len(Below) = Len(stack) - 1
  BY <1>1, TopFacts DEF IInv
<1>4. Bar(Top) /\ Top.flag \in BOOLEAN
  BY <1>1, <1>3, Kinds DEF Bar
<1>5. Len(Below) <= MaxDepth + 1
  BY <1>1, <1>3, TopFacts, ConstantsAssumption DEF IInv, TypeOK
<1>6. /\ Nested(Below) /\ \A i \in 1..Len(Below) : Below[i].kind # "gc"
      /\ ~Top.flag => Open(Below)
      /\ Chain(Below, catchFramep)
  BY <1>1, <1>4, BelowFacts
<1>7. Restore(Top.flag, Below, TRUE) /\ errjmpOk' = TRUE /\ UNCHANGED <<catchFramep, pending>>
  BY <1>2 DEF EndSection
<1> QED BY <1>1, <1>3, <1>4, <1>5, <1>6, <1>7, RestoreStep

LEMMA EndCollectionStep == ASSUME IInv, EndCollection PROVE IInv'
<1>1. stack # <<>> /\ Top.kind = "gc" /\ pc = "run"
  BY DEF EndCollection, On, Top, TopLevel
<1>2. PICK rest \in AfterCollection : Restore(Top.flag, rest, TRUE)
  BY DEF EndCollection
<1>3. /\ Top \in Activations /\ Below \in Seq(Activations)
      /\ Len(Below) = Len(stack) - 1 /\ Len(stack) \in Nat \ {0}
  BY <1>1, TopFacts DEF IInv
<1>4. Bar(Top) /\ Top.flag \in BOOLEAN
  BY <1>1, <1>3, Kinds DEF Bar
<1>5. /\ Len(Below) <= MaxDepth /\ Len(Below) \in Nat
  BY <1>3, ConstantsAssumption DEF IInv, TypeOK
<1>6. /\ Nested(Below) /\ \A i \in 1..Len(Below) : Below[i].kind # "gc"
      /\ ~Top.flag => Open(Below)
      /\ Chain(Below, catchFramep)
  BY <1>1, <1>4, BelowFacts
<1>7. rest \in {Below, Append(Below, Hook), Append(Below, Allocation)}
  BY <1>2 DEF AfterCollection
<1>8. ASSUME NEW x \in {Hook, Allocation}
      PROVE  LET r == Append(Below, x)
             IN  /\ r \in Seq(Activations) /\ Len(r) <= MaxDepth + 1
                 /\ Nested(r) /\ (~Top.flag => Open(r))
                 /\ \A i \in 1..Len(r) : r[i].kind # "gc"
                 /\ Chain(r, catchFramep)
  <2>1. x \in Activations /\ ~Bar(x) /\ x.kind \notin {"gc", "catch"}
    BY <1>8, Made DEF Hook, Allocation, Bar
  <2>2. Chain(Append(Below, x), catchFramep)
    BY <1>3, <1>6, <2>1, ChainEnter
  <2> QED BY <1>3, <1>5, <1>6, <2>1, <2>2, Pushed, ConstantsAssumption
<1>9. /\ rest \in Seq(Activations) /\ Len(rest) <= MaxDepth + 1
      /\ Nested(rest) /\ (~Top.flag => Open(rest))
      /\ \A i \in 1..Len(rest) : rest[i].kind # "gc"
      /\ Chain(rest, catchFramep)
  <2>1. CASE rest = Below
    BY <2>1, <1>3, <1>5, <1>6, ConstantsAssumption
  <2>2. CASE rest \in {Append(Below, Hook), Append(Below, Allocation)}
    BY <2>2, <1>8
  <2> QED BY <1>7, <2>1, <2>2
<1>10. errjmpOk' = TRUE /\ UNCHANGED <<catchFramep, pending>>
  BY DEF EndCollection
<1> QED BY <1>1, <1>2, <1>4, <1>9, <1>10, RestoreStep

(* A collection starts on top of s. *)
LEMMA CollectionOn ==
    ASSUME IInv, pc = "run", NEW s \in Seq(Activations), Nested(s), Len(s) <= MaxDepth,
           \A i \in 1..Len(s) : s[i].kind # "gc", Chain(s, catchFramep),
           ~nointerrupt => Open(s), NEW why \in {"newcell", "user"},
           stack' = Append(s, Collection(nointerrupt, why)),
           nointerrupt' = TRUE, errjmpOk' = FALSE,
           UNCHANGED <<differed, catchFramep, pc, pending>>
    PROVE  IInv'
<1> DEFINE x == Collection(nointerrupt, why)
<1>1. x \in Activations /\ x.kind = "gc" /\ x.flag = nointerrupt
  BY Made DEF Collection, IInv, TypeOK
<1> HIDE DEF x
<1>2. /\ stack' \in Seq(Activations) /\ Nested(stack') /\ stack' # <<>>
      /\ Len(stack') = Len(s) + 1 /\ Len(s) \in Nat /\ stack'[Len(stack')] = x
  BY <1>1, Pushed DEF x
<1>3. TypeOK'
  <2>1. Len(stack') <= MaxDepth + 1
    BY <1>2, ConstantsAssumption
  <2> QED BY <1>2, <2>1 DEF IInv, TypeOK
<1>4. CatchesLive'
  BY <1>1, ChainEnter DEF CatchesLive, x
<1>5. Top'.kind = "gc"
  BY <1>1, <1>2 DEF Top
<1> QED BY <1>2, <1>3, <1>4, <1>5, RunStep

LEMMA StartCollectionStep ==
    ASSUME IInv, NEW why \in {"newcell", "user"}, StartCollection(why) PROVE IInv'
<1>1. /\ Len(stack) <= MaxDepth /\ nointerrupt' = TRUE /\ errjmpOk' = FALSE
      /\ UNCHANGED <<differed, catchFramep, pc, pending>>
  <2>1. Len(stack) \in Nat
    BY DEF IInv, TypeOK
  <2> QED BY <2>1, ConstantsAssumption DEF StartCollection, RoomFor
<1>2. CASE Evaluating /\ stack' = Append(stack, Collection(nointerrupt, why))
  BY <1>1, <1>2, EvaluatingFacts, CollectionOn
<1>3. CASE /\ On({"section"}) /\ Top.cells > 0
           /\ stack' = Append(Append(Below, Section(Top.flag, Top.cells - 1)),
                              Collection(nointerrupt, why))
  <2>1. stack # <<>> /\ Top.kind = "section" /\ pc = "run"
    BY <1>3 DEF On, Top, TopLevel
  <2>2. /\ Top \in Activations /\ Below \in Seq(Activations)
        /\ Len(Below) = Len(stack) - 1 /\ Len(stack) \in Nat \ {0}
    BY <2>1, TopFacts DEF IInv
  <2>3. Bar(Top) /\ Top.flag \in BOOLEAN /\ Top.cells - 1 \in 0..MaxCells
    BY <1>3, <2>1, <2>2, Kinds, ConstantsAssumption DEF Bar
  <2>4. /\ Nested(Below) /\ \A i \in 1..Len(Below) : Below[i].kind # "gc"
        /\ ~Top.flag => Open(Below)
        /\ Chain(Below, catchFramep)
    BY <2>1, <2>3, BelowFacts
  <2> DEFINE x == Section(Top.flag, Top.cells - 1)
             s == Append(Below, x)
  <2>5. x \in Activations /\ x.kind = "section" /\ x.flag = Top.flag
    BY <2>3, Made DEF Section
  <2> HIDE DEF x
  <2>6. Len(Below) <= MaxDepth
    BY <1>1, <2>2, ConstantsAssumption
  <2>7. /\ s \in Seq(Activations) /\ Nested(s) /\ Len(s) = Len(Below) + 1
        /\ \A i \in 1..Len(s) : s[i].kind # "gc"
    BY <2>2, <2>4, <2>5, <2>6, Pushed
  <2>8. Chain(s, catchFramep)
    BY <2>2, <2>4, <2>5, ChainEnter
  <2>9. nointerrupt
    BY <2>1, <2>2, <2>3, TopFacts DEF IInv, Flags, StrikesBetween, Bar
  <2>10. stack' = Append(s, Collection(nointerrupt, why))
    BY <1>3 DEF x
  <2>11. Len(s) <= MaxDepth
    BY <1>1, <2>2, <2>7, ConstantsAssumption
  <2> HIDE DEF s
  <2> QED BY <1>1, <2>1, <2>7, <2>8, <2>9, <2>10, <2>11, CollectionOn
<1> QED BY <1>2, <1>3 DEF StartCollection

LEMMA AllocateHeapStep == ASSUME IInv, AllocateHeap PROVE IInv'
<1>1. stack # <<>> /\ Top.kind = "allocation" /\ pc = "run"
  BY DEF AllocateHeap, On, Top, TopLevel
<1>2. /\ Below \in Seq(Activations)
      /\ Len(Below) = Len(stack) - 1 /\ Len(stack) \in Nat \ {0}
  BY <1>1, TopFacts DEF IInv
<1>3. /\ Nested(Below) /\ \A i \in 1..Len(Below) : Below[i].kind # "gc"
      /\ Open(stack) => Open(Below)
      /\ Chain(Below, catchFramep)
  BY <1>1, BelowFacts
<1>4. ~nointerrupt => Open(Below)
  BY <1>1, <1>3 DEF IInv, Flags, StrikesBetween, Open, Bar, TypeOK
<1> DEFINE x == Section(nointerrupt, 0)
<1>5. x \in Activations /\ x.kind = "section" /\ x.flag = nointerrupt
  BY Made DEF Section, IInv, TypeOK
<1>6. stack' = Append(Below, x) /\ nointerrupt' = TRUE
      /\ UNCHANGED <<differed, errjmpOk, catchFramep, pc, pending>>
  BY DEF AllocateHeap
<1> HIDE DEF x
<1>7. Len(Below) <= MaxDepth
  BY <1>2, ConstantsAssumption DEF IInv, TypeOK
<1>8. /\ stack' \in Seq(Activations) /\ Nested(stack') /\ stack' # <<>>
      /\ Len(stack') = Len(stack) /\ stack'[Len(stack')] = x
  BY <1>2, <1>3, <1>4, <1>5, <1>6, <1>7, Pushed
<1>9. TypeOK'
  BY <1>1, <1>6, <1>8 DEF IInv, TypeOK
<1>10. CatchesLive'
  BY <1>2, <1>3, <1>5, <1>6, ChainEnter DEF CatchesLive
<1>11. errjmpOk' /\ Top'.kind # "gc"
  BY <1>1, <1>5, <1>6, <1>8 DEF IInv, Flags, Top
<1> QED BY <1>1, <1>6, <1>8, <1>9, <1>10, <1>11, RunStep

LEMMA EnterCatchStep ==
    ASSUME IInv, NEW tag \in Tags, EnterCatch(tag) PROVE IInv'
<1> DEFINE x == Catch(tag, catchFramep)
<1>1. x \in Activations /\ x.kind = "catch" /\ x.next = catchFramep
  BY Made DEF Catch, IInv, TypeOK
<1>2. /\ Evaluating /\ stack' = Append(stack, x) /\ catchFramep' = Len(stack')
      /\ UNCHANGED <<nointerrupt, differed, errjmpOk, pc, pending>>
  BY DEF EnterCatch
<1>3. Len(stack) + 1 <= MaxDepth
  BY DEF EnterCatch, RoomFor
<1> HIDE DEF x
<1>4. /\ stack' \in Seq(Activations) /\ Nested(stack') /\ stack' # <<>>
      /\ Len(stack') = Len(stack) + 1 /\ stack'[Len(stack')] = x
      /\ Open(stack) => Open(stack')
  <2>1. ~Bar(x) /\ Len(stack) <= MaxDepth
    BY <1>1, <1>2, <1>3, EvaluatingFacts, ConstantsAssumption DEF Bar
  <2> QED BY <1>1, <1>2, <2>1, EvaluatingFacts, Pushed
<1>5. TypeOK'
  <2>1. Len(stack') <= MaxDepth + 1 /\ catchFramep' \in 0..MaxDepth
    BY <1>2, <1>3, <1>4, EvaluatingFacts, ConstantsAssumption
  <2> QED BY <1>2, <1>4, <2>1, EvaluatingFacts DEF IInv, TypeOK
<1>6. Chain(stack', catchFramep')
  BY <1>1, <1>2, <1>4, EvaluatingFacts, ChainEnter
<1>7. CatchesLive'
  BY <1>6 DEF CatchesLive
<1>8. errjmpOk' /\ Top'.kind # "gc"
  BY <1>1, <1>2, <1>4, EvaluatingFacts DEF Top
<1> QED BY <1>2, <1>4, <1>5, <1>7, <1>8, EvaluatingFacts, RunStep

(* The program's code goes on below the last n activations. *)
LEMMA LeaveStep ==
    ASSUME IInv, Evaluating, NEW n \in 0..Len(stack), NEW d,
           stack' = SubSeq(stack, 1, n), catchFramep' = d, IsInnermost(stack, d, n),
           d \in 0..MaxDepth, UNCHANGED <<nointerrupt, differed, errjmpOk, pc, pending>>
    PROVE  IInv'
<1>1. /\ stack' \in Seq(Activations) /\ Len(stack') = n /\ n <= Len(stack)
      /\ \A i \in 1..n : stack'[i] = stack[i]
  BY EvaluatingFacts, Leave
<1>2. Nested(stack') /\ (Open(stack) => Open(stack'))
  BY EvaluatingFacts, NestedLeave
<1>3. Chain(stack', catchFramep')
  BY EvaluatingFacts, ChainLeave
<1>4. TypeOK'
  <2>1. Len(stack') <= MaxDepth + 1
    BY <1>1, EvaluatingFacts, ConstantsAssumption DEF IInv, TypeOK
  <2> QED BY <1>1, <2>1, EvaluatingFacts DEF IInv, TypeOK
<1>5. Top'.kind # "gc"
  <2>1. stack' # <<>> => n \in 1..n
    BY <1>1, EmptySeq
  <2>2. \A i \in 1..n : stack'[i].kind # "gc"
    BY <1>1, EvaluatingFacts
  <2> QED BY <1>1, <2>1, <2>2 DEF Top, TopLevel
<1> QED BY <1>2, <1>3, <1>4, <1>5, EvaluatingFacts, RunStep DEF CatchesLive

LEMMA ReturnStep == ASSUME IInv, Return PROVE IInv'
<1>1. stack # <<>> /\ Top.kind \in {"catch", "hook"} /\ Evaluating
  BY DEF Return, On, Top, TopLevel, Evaluating
<1>2. Top = stack[Len(stack)] /\ Len(stack) \in Nat \ {0} /\ Top \in Activations
  BY <1>1, TopFacts DEF IInv
<1>3. Chain(stack, catchFramep)
  BY <1>1, EvaluatingFacts
<1>4. CASE Top.kind = "catch"
  <2>1. catchFramep = Len(stack)
    BY <1>2, <1>3, <1>4 DEF Chain, IsInnermost
  <2>2. catchFramep' = Top.next
    BY <1>2, <1>4, <2>1 DEF Return
  <2>3. IsInnermost(stack, Top.next, Len(stack) - 1) /\ Top.next \in 0..MaxDepth
    BY <1>2, <1>3, <1>4, Kinds DEF Chain
  <2> QED BY <1>1, <1>2, <2>2, <2>3, LeaveStep DEF Return, Below
<1>5. CASE Top.kind # "catch"
  <2>1. catchFramep' = catchFramep /\ catchFramep \in 0..MaxDepth
    BY <1>5 DEF Return, IInv, TypeOK
  <2>2. IsInnermost(stack, catchFramep, Len(stack) - 1)
    <3>1. catchFramep # Len(stack)
      BY <1>2, <1>3, <1>5 DEF Chain, IsInnermost
    <3> QED BY <1>2, <1>3, <3>1 DEF Chain, IsInnermost
  <2> QED BY <1>1, <1>2, <2>1, <2>2, LeaveStep DEF Return, Below
<1> QED BY <1>4, <1>5

LEMMA ThrowStep == ASSUME IInv, NEW tag \in Tags, Throw(tag) PROVE IInv'
<1>1. Evaluating /\ UNCHANGED <<differed, errjmpOk, pending>>
  BY DEF Throw
<1>2. CASE Err("error", errjmpOk) /\ UNCHANGED catchFramep
  BY <1>1, <1>2, ErrStep DEF IInv, TypeOK
<1>3. CASE \E d \in Frames : /\ stack' = SubSeq(stack, 1, d - 1)
                            /\ catchFramep' = stack[d].next
                            /\ UNCHANGED <<nointerrupt, pc>>
  <2> PICK d \in Frames : /\ stack' = SubSeq(stack, 1, d - 1)
                          /\ catchFramep' = stack[d].next
                          /\ UNCHANGED <<nointerrupt, pc>>
    BY <1>3
  <2>1. d \in 1..Len(stack) /\ stack[d].kind = "catch" /\ Len(stack) \in Nat
    BY <1>1, EvaluatingFacts DEF Frames
  <2>2. IsInnermost(stack, stack[d].next, d - 1)
    BY <1>1, <2>1, EvaluatingFacts DEF Chain
  <2>3. stack[d].next \in 0..MaxDepth
    <3>1. stack[d] \in Activations
      BY <1>1, <2>1, EvaluatingFacts
    <3> QED BY <2>1, <3>1, Kinds
  <2>4. d - 1 \in 0..Len(stack)
    BY <2>1
  <2> QED BY <1>1, <2>2, <2>3, <2>4, LeaveStep
<1> QED BY <1>2, <1>3 DEF Throw

LEMMA Inductive == ASSUME IInv, [Next]_vars PROVE IInv'
<1>1. CASE Next
  <2>1. CASE SetHandler \/ Reset \/ Enable \/ Prompt
    BY <2>1, DriverStep
  <2>2. CASE ControlC \/ Error
    BY <2>2, ControlCStep, ErrorStep
  <2>3. CASE EnterSection \/ EndSection \/ EndCollection \/ AllocateHeap
    BY <2>3, EnterSectionStep, EndSectionStep, EndCollectionStep, AllocateHeapStep
  <2>4. CASE \E why \in {"newcell", "user"} : StartCollection(why)
    BY <2>4, StartCollectionStep
  <2>5. CASE \E tag \in Tags : EnterCatch(tag) \/ Throw(tag)
    BY <2>5, EnterCatchStep, ThrowStep
  <2>6. CASE Return
    BY <2>6, ReturnStep
  <2> QED BY <1>1, <2>1, <2>2, <2>3, <2>4, <2>5, <2>6 DEF Next
<1>2. CASE UNCHANGED vars
  BY <1>2 DEF vars, IInv, TypeOK, CatchesLive, Flags, StrikesBetween, NeverKilled, Top
<1> QED BY <1>1, <1>2

LEMMA Invariance == Spec => []IInv
<1>1. Init => IInv
  <2> SUFFICES ASSUME Init PROVE IInv
    OBVIOUS
  <2>1. <<>> \in Seq(Activations) /\ Len(stack) <= MaxDepth + 1 /\ 0 \in 0..MaxDepth
    BY ConstantsAssumption DEF Init
  <2>2. TypeOK
    BY <2>1 DEF Init, TypeOK
  <2>3. CatchesLive /\ Flags
    BY DEF Init, CatchesLive, Flags, StrikesBetween, NeverKilled
  <2> QED BY <2>2, <2>3 DEF IInv
<1> QED BY <1>1, Inductive, PTL DEF Spec

-----------------------------------------------------------------------------
(* Whatever the depth of the stack and the hook's throws, err always has   *)
(* repl_driver to go back to when a control-C strikes.                     *)
THEOREM Survives == Spec => []NeverKilled
<1>1. IInv => NeverKilled
  BY DEF IInv, Flags
<1> QED BY <1>1, Invariance, PTL

(* No section and no collection is ever interrupted in its middle. *)
THEOREM Undisturbed == Spec => []StrikesBetween
<1>1. IInv => StrikesBetween
  BY DEF IInv, Flags
<1> QED BY <1>1, Invariance, PTL

(* Every state of the interpreter is well typed, its stack included. *)
THEOREM TypeCorrect == Spec => []TypeOK
<1>1. IInv => TypeOK
  BY DEF IInv
<1> QED BY <1>1, Invariance, PTL

(* Every frame that *throw can find is one of a *catch under way.          *)
THEOREM ThrowsLand == Spec => []CatchesLive
<1>1. IInv => CatchesLive
  BY DEF IInv
<1> QED BY <1>1, Invariance, PTL
=============================================================================
