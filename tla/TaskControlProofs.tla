-------------------------- MODULE TaskControlProofs --------------------------
(***************************************************************************)
(* Proofs about TaskControl, for any number of generations, wakes, aborts,  *)
(* polls and hand-offs.                                                     *)
(***************************************************************************)
EXTENDS TaskControl, TLAPS

\* The leases that are out are exactly what the lifecycle says.
LeaseInv ==
    /\ polls = IF life = "RunningRuntime" THEN {sgen} ELSE {}
    /\ segments = IF life = "FacilityRunning" THEN {fgen} ELSE {}

\* The terminal's stages: not decided, decided and held by one action, published.
TerminalInv ==
    \/ /\ life # "Completed" /\ closing = 0 /\ publishing = 0
       /\ verdict = "None" /\ frame = "Live" /\ outcome = "Pending"
    \/ /\ life = "Completed" /\ verdict # "None" /\ closing = 1 /\ publishing = 0
       /\ frame = "Live" /\ outcome = "Pending"
    \/ /\ life = "Completed" /\ verdict # "None" /\ closing = 0 /\ publishing = 1
       /\ frame = "Released" /\ outcome = "Pending"
    \/ /\ life = "Completed" /\ verdict # "None" /\ closing = 0 /\ publishing = 0
       /\ frame = "Released" /\ outcome = verdict

\* A value was only decided for a task nobody asked to cancel.
CancelInv == verdict = "Value" => ~cancel

\* TypeOK in two parts: the Boolean flags, and the rest.
FlagsOK == wake \in BOOLEAN /\ cancel \in BOOLEAN

ShapeOK ==
    /\ life \in Lifecycles
    /\ sgen \in Nat /\ fgen \in Nat
    /\ polls \subseteq Nat /\ segments \subseteq Nat
    /\ verdict \in {"None", "Value", "Aborted"}
    /\ closing \in Nat /\ publishing \in Nat
    /\ frame \in {"Live", "Released"}
    /\ outcome \in {"Pending", "Value", "Aborted"}

\* The inductive invariant.  ExclusiveDrive alone is not inductive: that no second
\* lease is handed out follows from the lifecycle, and that the lifecycle cannot
\* move while a lease is out follows from LeaseInv.
IInv == FlagsOK /\ ShapeOK /\ LeaseInv /\ TerminalInv /\ CancelInv

\* One step of the task with everything Next quantifies over made a parameter.
Step(stop, g, out, again) ==
    \/ Activate \/ Abort \/ Release \/ Publish \/ Schedule(stop) \/ BeginPoll(g)
    \/ g \in polls /\ EndPoll(g, stop, out)
    \/ CompleteFacility(g, stop) \/ BeginSegment(g, stop) \/ CancelHandoff(g, stop)
    \/ g \in segments /\ EndSegment(g, stop, again)

\* A fresh task satisfies the inductive invariant.
LEMMA InitIInv == Init => IInv
<1>1. Init => FlagsOK
  BY DEF Init, FlagsOK
<1>2. Init => ShapeOK /\ LeaseInv /\ TerminalInv
  BY SMT DEF Init, ShapeOK, LeaseInv, TerminalInv, Lifecycles
<1>3. Init => CancelInv
  BY DEF Init, CancelInv
<1> QED BY <1>1, <1>2, <1>3 DEF IInv

\* Every step is a Step, with a generation that is a natural number.
LEMMA NextIsStep ==
  ASSUME ShapeOK, Next
  PROVE  \E stop \in BOOLEAN, g \in Nat, out \in Outcomes, again \in BOOLEAN :
            Step(stop, g, out, again)
<1>0. /\ \A g \in 0..sgen : g \in Nat
      /\ \A g \in 0..fgen : g \in Nat
      /\ \A g \in polls : g \in Nat
      /\ \A g \in segments : g \in Nat
      /\ 0 \in Nat /\ "None" \in Outcomes /\ TRUE \in BOOLEAN
  BY DEF ShapeOK, Outcomes
<1> QED BY <1>0, Zenon DEF Next, Step

USE DEF Activate, Schedule, Abort, BeginPoll, EndPoll, CompleteFacility, BeginSegment,
        CancelHandoff, EndSegment, Release, Publish, Requeue, Become, Leases,
        CompleteAborted, Complete, Flag

\* The flags stay Boolean.
LEMMA FlagsStep ==
  ASSUME FlagsOK, NEW stop \in BOOLEAN, NEW g \in Nat, NEW out \in Outcomes,
         NEW again \in BOOLEAN, Step(stop, g, out, again)
  PROVE  FlagsOK'
  BY Zenon DEF FlagsOK, Step

\* The rest of the control block and the terminal keep their types.
LEMMA ShapeStep ==
  ASSUME ShapeOK, TerminalInv, NEW stop \in BOOLEAN, NEW g \in Nat, NEW out \in Outcomes,
         NEW again \in BOOLEAN, Step(stop, g, out, again)
  PROVE  ShapeOK'
<1>1. life' = life \/ life' \in Lifecycles
  BY Zenon DEF Step, Lifecycles
<1>2. /\ sgen' = sgen \/ sgen' = sgen + 1
      /\ fgen' = fgen \/ fgen' = fgen + 1
  BY Zenon DEF Step
<1>3. /\ polls' = polls \/ polls' = polls \cup {g} \/ polls' = polls \ {g}
      /\ segments' = segments \/ segments' = segments \cup {g} \/ segments' = segments \ {g}
  BY Zenon DEF Step
<1>4. verdict' = verdict \/ verdict' \in {"Value", "Aborted"}
  BY Zenon DEF Step
<1>5. /\ closing' = closing \/ closing' = closing + 1 \/ (closing > 0 /\ closing' = closing - 1)
      /\ \/ publishing' = publishing \/ publishing' = publishing + 1
         \/ publishing > 0 /\ publishing' = publishing - 1
  BY Zenon DEF Step
<1>6. frame' = frame \/ frame' = "Released"
  BY Zenon DEF Step
<1>7. outcome' = outcome \/ (publishing > 0 /\ outcome' = verdict)
  BY Zenon DEF Step
<1>8. publishing > 0 => verdict \in {"Value", "Aborted"}
  BY SMT DEF TerminalInv, ShapeOK
<1>9. /\ sgen' \in Nat /\ fgen' \in Nat
      /\ polls' \subseteq Nat /\ segments' \subseteq Nat
  <2>1. sgen' \in Nat /\ fgen' \in Nat
    BY <1>2, SMT DEF ShapeOK
  <2>2. polls' \subseteq Nat /\ segments' \subseteq Nat
    BY <1>3, Zenon DEF ShapeOK
  <2> QED BY <2>1, <2>2
<1>10. closing' \in Nat /\ publishing' \in Nat
  <2>1. closing \in Nat /\ publishing \in Nat
    BY DEF ShapeOK
  <2> QED BY <2>1, <1>5, SMT
<1>11. /\ life' \in Lifecycles
       /\ frame' \in {"Live", "Released"}
  BY <1>1, <1>6, Zenon DEF ShapeOK
<1>12. /\ verdict' \in {"None", "Value", "Aborted"}
       /\ outcome' \in {"Pending", "Value", "Aborted"}
  BY <1>4, <1>7, <1>8, SMT DEF ShapeOK
<1> QED BY <1>9, <1>10, <1>11, <1>12, Zenon DEF ShapeOK

\* Leases are handed out by BeginPoll and BeginSegment only, from lifecycles in which
\* none is out, and while one is out no other section moves the lifecycle.
LEMMA LeaseStep ==
  ASSUME ShapeOK, LeaseInv, NEW stop \in BOOLEAN, NEW g \in Nat, NEW out \in Outcomes,
         NEW again \in BOOLEAN, Step(stop, g, out, again)
  PROVE  LeaseInv'
  BY SMT DEF ShapeOK, Lifecycles, LeaseInv, Step

\* The terminal is decided from a lifecycle other than Completed, then released and
\* published by the one action that holds it.
LEMMA TerminalStep ==
  ASSUME ShapeOK, LeaseInv, TerminalInv, NEW stop \in BOOLEAN, NEW g \in Nat,
         NEW out \in Outcomes, NEW again \in BOOLEAN, Step(stop, g, out, again)
  PROVE  TerminalInv'
  BY SMT DEF ShapeOK, Lifecycles, LeaseInv, TerminalInv, Step

\* cancel_requested is set only before the verdict, and then it decides it.
LEMMA CancelStep ==
  ASSUME ShapeOK, cancel \in BOOLEAN, LeaseInv, TerminalInv, CancelInv,
         NEW stop \in BOOLEAN, NEW g \in Nat, NEW out \in Outcomes,
         NEW again \in BOOLEAN, Step(stop, g, out, again)
  PROVE  CancelInv'
  BY DEF ShapeOK, Lifecycles, LeaseInv, TerminalInv, CancelInv, Step

\* Every step preserves the inductive invariant.
LEMMA InductiveIInv == IInv /\ [Next]_vars => IInv'
<1> SUFFICES ASSUME IInv, [Next]_vars PROVE IInv'
  OBVIOUS
<1>1. CASE Next
  <2>1. PICK stop \in BOOLEAN, g \in Nat, out \in Outcomes, again \in BOOLEAN :
           Step(stop, g, out, again)
    BY <1>1, NextIsStep DEF IInv
  <2>2. FlagsOK'
    BY <2>1, FlagsStep DEF IInv
  <2>3. ShapeOK'
    BY <2>1, ShapeStep DEF IInv
  <2>4. LeaseInv'
    BY <2>1, LeaseStep DEF IInv
  <2>5. TerminalInv'
    BY <2>1, TerminalStep DEF IInv
  <2>6. CancelInv'
    BY <2>1, CancelStep DEF IInv, FlagsOK
  <2> QED BY <2>2, <2>3, <2>4, <2>5, <2>6 DEF IInv
<1>2. CASE UNCHANGED vars
  BY <1>2 DEF vars, IInv, FlagsOK, ShapeOK, LeaseInv, TerminalInv, CancelInv
<1> QED BY <1>1, <1>2

\* The inductive invariant holds throughout.
THEOREM Invariance == Spec => []IInv
  BY InitIInv, InductiveIInv, PTL DEF Spec

\* The control block is well typed for every sequence of calls.
THEOREM ControlTyped == Spec => []TypeOK
<1>1. IInv => TypeOK
  BY Zenon DEF IInv, FlagsOK, ShapeOK, TypeOK
<1> QED BY <1>1, Invariance, PTL

\* A coroutine is never driven by two threads, nor while its frame is being released.
THEOREM DriveIsExclusive == Spec => []ExclusiveDrive
<1>1. IInv => ExclusiveDrive
  BY DEF IInv, ShapeOK, LeaseInv, TerminalInv, ExclusiveDrive
<1> QED BY <1>1, Invariance, PTL

\* A lease that ends is current, so end_runtime_execution and end_facility_execution
\* never drop the outcome of a drive.
THEOREM LeasesAreCurrent == Spec => []LeaseIsCurrent
<1>1. IInv => LeaseIsCurrent
  BY DEF IInv, LeaseInv, LeaseIsCurrent
<1> QED BY <1>1, Invariance, PTL

\* A task has one terminal, published once and after its frame is gone.
THEOREM TerminalIsSingle == Spec => []SingleTerminal
<1>1. IInv => SingleTerminal
  BY DEF IInv, ShapeOK, TerminalInv, SingleTerminal
<1> QED BY <1>1, Invariance, PTL

\* An accepted cancellation is never overtaken by a value.
THEOREM CancellationWins == Spec => []CancelWins
<1>1. IInv => CancelWins
  BY DEF IInv, TerminalInv, CancelInv, CancelWins
<1> QED BY <1>1, Invariance, PTL

\* Nothing that arrives after the terminal changes it.
THEOREM TerminalIsFinal == Spec => TerminalFinal
<1>1. ASSUME IInv, [Next]_vars
      PROVE  /\ life = "Completed" => life' = "Completed" /\ verdict' = verdict /\ cancel' = cancel
             /\ outcome # "Pending" => outcome' = outcome
  <2>1. CASE Next
    <3>1. PICK stop \in BOOLEAN, g \in Nat, out \in Outcomes, again \in BOOLEAN :
             Step(stop, g, out, again)
      BY <1>1, <2>1, NextIsStep DEF IInv
    <3>2. ASSUME life = "Completed"
          PROVE  Release \/ Publish
      BY <1>1, <3>1, <3>2 DEF Step, IInv, LeaseInv
    <3>3. outcome # "Pending" => life = "Completed" /\ closing = 0 /\ publishing = 0
      BY <1>1 DEF IInv, TerminalInv
    <3>4. ASSUME Release \/ Publish, life = "Completed"
          PROVE life' = "Completed" /\ verdict' = verdict /\ cancel' = cancel
      BY <3>4
    <3>5. outcome = "Pending"
      BY <3>2, <3>3
    <3> QED BY <3>2, <3>4, <3>5
  <2>2. CASE UNCHANGED vars
    BY <2>2 DEF vars
  <2> QED BY <1>1, <2>1, <2>2
<1> QED BY <1>1, Invariance, PTL DEF Spec, TerminalFinal
=============================================================================
