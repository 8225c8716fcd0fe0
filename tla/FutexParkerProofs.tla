-------------------------- MODULE FutexParkerProofs --------------------------
(***************************************************************************)
(* The futex parker for every number of unparkers and both futex_wait       *)
(* flavours: the state word never underflows, no sleeper with a token is    *)
(* forgotten, and park, park_timeout and unpark implement ParkSpec.         *)
(***************************************************************************)
EXTENDS FutexParker, TLAPS

\* TypeOK without the flag, and the flag.
ShapeOK ==
    /\ state \in {PARKED, EMPTY, NOTIFIED}
    /\ pc \in {"Out", "Wait", "Asleep", "Check"}
    /\ waking \subseteq Unparkers
    /\ pc = "Out" => state # PARKED
    /\ pc # "Out" => state # EMPTY

FlagOK == timed \in BOOLEAN /\ (pc = "Out" => ~timed)

\* The inductive invariant.
IInv == ShapeOK /\ FlagOK /\ SleeperWoken

USE DEF PARKED, EMPTY, NOTIFIED, Roused

\* A parker starts empty.
LEMMA InitIInv == Init => IInv
<1>1. Init => ShapeOK /\ SleeperWoken
  BY DEF Init, ShapeOK, SleeperWoken
<1>2. Init => FlagOK
  BY DEF Init, FlagOK
<1> QED BY <1>1, <1>2 DEF IInv

\* Every step preserves the inductive invariant.
LEMMA InductiveIInv == IInv /\ [Next]_vars => IInv'
<1> SUFFICES ASSUME IInv, [Next]_vars PROVE IInv'
  OBVIOUS
<1> USE DEF IInv
<1>1. ASSUME NEW b \in BOOLEAN, Park(b) PROVE IInv'
  <2>1. ShapeOK' /\ SleeperWoken'
    BY <1>1, SMT DEF Park, ShapeOK, SleeperWoken
  <2>2. FlagOK'
    BY <1>1 DEF Park, FlagOK
  <2> QED BY <2>1, <2>2
<1>2. CASE Wait
  <2>1. ShapeOK' /\ SleeperWoken'
    BY <1>2, SMT DEF Wait, ShapeOK, SleeperWoken
  <2>2. FlagOK'
    BY <1>2 DEF Wait, FlagOK
  <2> QED BY <2>1, <2>2
<1>3. CASE Interrupt
  <2>1. ShapeOK' /\ SleeperWoken'
    BY <1>3, SMT DEF Interrupt, ShapeOK, SleeperWoken
  <2>2. FlagOK'
    BY <1>3 DEF Interrupt, FlagOK
  <2> QED BY <2>1, <2>2
<1>4. CASE Timeout
  <2>1. ShapeOK' /\ SleeperWoken'
    BY <1>4, SMT DEF Timeout, ShapeOK, SleeperWoken
  <2>2. FlagOK'
    BY <1>4 DEF Timeout, FlagOK
  <2> QED BY <2>1, <2>2
<1>5. CASE Check
  <2>1. ShapeOK' /\ SleeperWoken'
    BY <1>5, SMT DEF Check, ShapeOK, SleeperWoken
  <2>2. FlagOK'
    BY <1>5 DEF Check, FlagOK
  <2> QED BY <2>1, <2>2
<1>6. ASSUME NEW u \in Unparkers, Unpark(u) PROVE IInv'
  <2>1. ShapeOK' /\ SleeperWoken'
    BY <1>6, SMT DEF Unpark, ShapeOK, SleeperWoken
  <2>2. FlagOK'
    BY <1>6 DEF Unpark, FlagOK
  <2> QED BY <2>1, <2>2
<1>7. ASSUME NEW u \in Unparkers, Wake(u) PROVE IInv'
  <2>1. ShapeOK' /\ SleeperWoken'
    BY <1>7, SMT DEF Wake, ShapeOK, SleeperWoken
  <2>2. FlagOK'
    BY <1>7 DEF Wake, FlagOK
  <2> QED BY <2>1, <2>2
<1>8. CASE UNCHANGED vars
  BY <1>8 DEF vars, ShapeOK, FlagOK, SleeperWoken
<1> QED BY <1>1, <1>2, <1>3, <1>4, <1>5, <1>6, <1>7, <1>8 DEF Next

\* The inductive invariant holds throughout.
THEOREM Invariance == Spec => []IInv
  BY InitIInv, InductiveIInv, PTL DEF Spec

\* The state word is always one of its three values, and PARKED only inside park.
THEOREM ParkerTyped == Spec => []TypeOK
<1>1. IInv => TypeOK
  BY DEF IInv, ShapeOK, FlagOK, TypeOK
<1> QED BY <1>1, Invariance, PTL

\* A sleeper whose token is available has a futex_wake coming.
THEOREM SleepersAreWoken == Spec => []SleeperWoken
<1>1. IInv => SleeperWoken
  BY DEF IInv
<1> QED BY <1>1, Invariance, PTL

\* Every step is a step of ParkSpec or leaves the phase and the token alone.
LEMMA StepRefines ==
  ASSUME IInv, [Next]_vars
  PROVE  Abstract!Next \/ UNCHANGED <<Phase, state = NOTIFIED>>
<1> USE DEF IInv, ShapeOK, FlagOK, Phase
<1>1. ASSUME NEW b \in BOOLEAN, Park(b)
      PROVE  Abstract!Next
  <2>1. CASE state = NOTIFIED
    <3>1. Phase = "Out" /\ Phase' = "Out" /\ (state' = NOTIFIED) = FALSE
      BY <1>1, <2>1 DEF Park
    <3> QED BY <2>1, <3>1 DEF Abstract!Next, Abstract!Immediate
  <2>2. CASE state # NOTIFIED
    <3>1. Phase = "Out" /\ Phase' \in {"Parked", "Timed"} /\ (state' = NOTIFIED) = (state = NOTIFIED)
      BY <1>1, <2>2 DEF Park
    <3> QED BY <2>2, <3>1 DEF Abstract!Next, Abstract!Block
  <2> QED BY <2>1, <2>2
<1>2. CASE Wait \/ Interrupt \/ Timeout
  BY <1>2 DEF Wait, Interrupt, Timeout
<1>3. CASE Check
  <2>1. CASE timed \/ state = NOTIFIED
    <3>1. Phase # "Out" /\ Phase' = "Out" /\ (state' = NOTIFIED) = FALSE
      BY <1>3, <2>1 DEF Check
    <3>2. (state = NOTIFIED) \/ Phase = "Timed"
      BY <1>3, <2>1 DEF Check
    <3> QED BY <3>1, <3>2 DEF Abstract!Next, Abstract!Return
  <2>2. CASE ~(timed \/ state = NOTIFIED)
    BY <1>3, <2>2 DEF Check
  <2> QED BY <2>1, <2>2
<1>4. ASSUME NEW u \in Unparkers, Unpark(u)
      PROVE  Abstract!Next
  <2>1. Phase' = Phase /\ (state' = NOTIFIED) = TRUE
    BY <1>4 DEF Unpark
  <2> QED BY <2>1 DEF Abstract!Next, Abstract!Unpark
<1>5. ASSUME NEW u \in Unparkers, Wake(u)
      PROVE  UNCHANGED <<Phase, state = NOTIFIED>>
  BY <1>5 DEF Wake
<1>6. CASE UNCHANGED vars
  BY <1>6 DEF vars
<1> QED BY <1>1, <1>2, <1>3, <1>4, <1>5, <1>6 DEF Next

\* The futex parker implements ParkSpec.
THEOREM ParkerImplementsPark == Spec => ImplementsPark
<1>1. Init => Abstract!Init
  BY DEF Init, Abstract!Init, Phase
<1>2. IInv /\ [Next]_vars => [Abstract!Next]_<<Phase, state = NOTIFIED>>
  BY StepRefines
<1> QED BY <1>1, <1>2, Invariance, PTL DEF Spec, ImplementsPark, Abstract!Spec
=============================================================================
