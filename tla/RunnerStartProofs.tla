------------------------- MODULE RunnerStartProofs -------------------------
(* Theorems about RunnerStart, for any number of runners.                    *)
EXTENDS RunnerStart, TLAPS

HaveStdOut == {"stdOut", "stdInPrivate", "private"}
HaveStdIn == HaveStdOut \cup {"stdIn"}

(* What a constructor has made so far is open, and what the child needs of   *)
(* it is inheritable, also after the parent's ends have been taken out.      *)
OwnEnds(r) ==
  /\ stage[r] \in {"new", "failed", "destroyed"} => \A h \in open : h[1] # r
  /\ stage[r] \in HaveStdIn =>
       {<<r, "stdInRead">>, <<r, "stdInWrite">>} \subseteq open /\ <<r, "stdInRead">> \in inheritable
  /\ stage[r] \in HaveStdOut =>
       {<<r, "stdOutRead">>, <<r, "stdOutWrite">>} \subseteq open /\ <<r, "stdOutWrite">> \in inheritable
  /\ stage[r] = "started" => {r} \X (Ends \cup {"process"}) \subseteq open
OwnEndsInv == \A r \in Runners : OwnEnds(r)

(* A parent's end is inheritable only in a constructor that will see to it,  *)
(* or has failed to, and there is no other constructor beside it.            *)
PrivateInv ==
  /\ \A r \in Runners :
       /\ <<r, "stdInWrite">> \in inheritable => stage[r] \in {"stdIn", "stdOut"}
       /\ <<r, "stdOutRead">> \in inheritable => stage[r] \in {"stdOut", "stdInPrivate"}
  /\ Serialized =>
       \A r, q \in Runners :
         stage[r] \in UnderConstruction /\ stage[q] \in UnderConstruction => r = q

Inv ==
  /\ TypeOK /\ OwnEndsInv /\ PrivateInv /\ ChildConnected
  /\ Serialized => ParentEndsPrivate

LEMMA InitInv == Init => Inv
BY DEF Init, Inv, TypeOK, Stages, UnderConstruction, OwnEndsInv, OwnEnds, HaveStdIn, HaveStdOut,
       PrivateInv, ChildConnected, ParentEndsPrivate

LEMMA NextType == TypeOK /\ [Next]_vars => TypeOK'
<1> SUFFICES ASSUME TypeOK, [Next]_vars PROVE TypeOK'
  OBVIOUS
<1> USE DEF TypeOK, Stages, UnderConstruction, Handles, Ends, Advance
<1>1. ASSUME NEW r \in Runners, CreateStdIn(r) \/ CreateStdOut(r) PROVE TypeOK'
  BY <1>1 DEF CreateStdIn, CreateStdOut, CreatePipe
<1>2. ASSUME NEW r \in Runners, DisallowStdIn(r) \/ DisallowStdOut(r) PROVE TypeOK'
  BY <1>2 DEF DisallowStdIn, DisallowStdOut, DisallowInheritance
<1>3. ASSUME NEW r \in Runners, StartChild(r) PROVE TypeOK'
  BY <1>3 DEF StartChild, ChildHandles
<1>4. ASSUME NEW r \in Runners, Fail(r) \/ Destroy(r) PROVE TypeOK'
  BY <1>4 DEF Fail, Destroy, CloseHandles
<1>5. ASSUME NEW r \in Runners, ChildExits(r) PROVE TypeOK'
  BY <1>5 DEF ChildExits
<1>6. CASE UNCHANGED vars
  BY <1>6 DEF vars
<1> QED
  BY <1>1, <1>2, <1>3, <1>4, <1>5, <1>6 DEF Next

LEMMA NextOwnEnds == TypeOK /\ OwnEndsInv /\ [Next]_vars => OwnEndsInv'
<1> SUFFICES ASSUME TypeOK, OwnEndsInv, [Next]_vars, NEW q \in Runners PROVE OwnEnds(q)'
  BY DEF OwnEndsInv
<1> USE DEF TypeOK, OwnEnds, HaveStdIn, HaveStdOut, Advance
<1>0. OwnEnds(q)
  BY DEF OwnEndsInv
<1>1. ASSUME NEW r \in Runners, CreateStdIn(r) PROVE OwnEnds(q)'
  <2>1. CASE q = r
    BY <1>0, <1>1, <2>1 DEF CreateStdIn, CreatePipe, Ends
  <2>2. CASE q # r
    BY <1>0, <1>1, <2>2 DEF CreateStdIn, CreatePipe
  <2> QED
    BY <2>1, <2>2
<1>2. ASSUME NEW r \in Runners, CreateStdOut(r) PROVE OwnEnds(q)'
  <2>1. CASE q = r
    BY <1>0, <1>2, <2>1 DEF CreateStdOut, CreatePipe, Ends
  <2>2. CASE q # r
    BY <1>0, <1>2, <2>2 DEF CreateStdOut, CreatePipe
  <2> QED
    BY <2>1, <2>2
<1>3. ASSUME NEW r \in Runners, DisallowStdIn(r) PROVE OwnEnds(q)'
  <2>1. CASE q = r
    BY <1>0, <1>3, <2>1 DEF DisallowStdIn, DisallowInheritance, Ends
  <2>2. CASE q # r
    BY <1>0, <1>3, <2>2 DEF DisallowStdIn, DisallowInheritance
  <2> QED
    BY <2>1, <2>2
<1>4. ASSUME NEW r \in Runners, DisallowStdOut(r) PROVE OwnEnds(q)'
  <2>1. CASE q = r
    BY <1>0, <1>4, <2>1 DEF DisallowStdOut, DisallowInheritance, Ends
  <2>2. CASE q # r
    BY <1>0, <1>4, <2>2 DEF DisallowStdOut, DisallowInheritance
  <2> QED
    BY <2>1, <2>2
<1>5. ASSUME NEW r \in Runners, StartChild(r) PROVE OwnEnds(q)'
  <2>1. CASE q = r
    BY <1>0, <1>5, <2>1 DEF StartChild, ChildHandles, Ends
  <2>2. CASE q # r
    BY <1>0, <1>5, <2>2 DEF StartChild, ChildHandles
  <2> QED
    BY <2>1, <2>2
<1>6. ASSUME NEW r \in Runners, Fail(r) PROVE OwnEnds(q)'
  <2>1. CASE q = r
    BY <1>0, <1>6, <2>1 DEF Fail, CloseHandles, Ends
  <2>2. CASE q # r
    BY <1>0, <1>6, <2>2 DEF Fail, CloseHandles
  <2> QED
    BY <2>1, <2>2
<1>7. ASSUME NEW r \in Runners, Destroy(r) PROVE OwnEnds(q)'
  <2>1. CASE q = r
    BY <1>0, <1>7, <2>1 DEF Destroy, CloseHandles, Ends
  <2>2. CASE q # r
    BY <1>0, <1>7, <2>2 DEF Destroy, CloseHandles
  <2> QED
    BY <2>1, <2>2
<1>8. ASSUME NEW r \in Runners, ChildExits(r) PROVE OwnEnds(q)'
  <2>1. CASE q = r
    BY <1>0, <1>8, <2>1 DEF ChildExits, Ends
  <2>2. CASE q # r
    BY <1>0, <1>8, <2>2 DEF ChildExits
  <2> QED
    BY <2>1, <2>2
<1>9. CASE UNCHANGED vars
  BY <1>0, <1>9 DEF vars
<1> QED
  BY <1>1, <1>2, <1>3, <1>4, <1>5, <1>6, <1>7, <1>8, <1>9 DEF Next

LEMMA NextPrivate == TypeOK /\ PrivateInv /\ OwnEndsInv /\ [Next]_vars => PrivateInv'
<1> SUFFICES ASSUME TypeOK, OwnEndsInv, PrivateInv, [Next]_vars PROVE PrivateInv'
  OBVIOUS
<1> USE DEF TypeOK, PrivateInv, UnderConstruction, Handles, Ends, Advance
<1>1. ASSUME NEW r \in Runners, CreateStdIn(r) PROVE PrivateInv'
  BY <1>1 DEF CreateStdIn, CreatePipe, MayBegin
<1>2. ASSUME NEW r \in Runners, CreateStdOut(r) PROVE PrivateInv'
  BY <1>2 DEF CreateStdOut, CreatePipe
<1>3. ASSUME NEW r \in Runners, DisallowStdIn(r) \/ DisallowStdOut(r) PROVE PrivateInv'
  BY <1>3 DEF DisallowStdIn, DisallowStdOut, DisallowInheritance
<1>4. ASSUME NEW r \in Runners, StartChild(r) PROVE PrivateInv'
  BY <1>4 DEF StartChild
<1>5. ASSUME NEW r \in Runners, Fail(r) \/ Destroy(r) PROVE PrivateInv'
  BY <1>5 DEF Fail, Destroy, CloseHandles
<1>6. ASSUME NEW r \in Runners, ChildExits(r) PROVE PrivateInv'
  BY <1>6 DEF ChildExits
<1>7. CASE UNCHANGED vars
  BY <1>7 DEF vars
<1> QED
  BY <1>1, <1>2, <1>3, <1>4, <1>5, <1>6, <1>7 DEF Next

(* A child gets its handles in one step, and only loses them afterwards.     *)
LEMMA NextChildren ==
  Inv /\ [Next]_vars => ChildConnected' /\ (Serialized => ParentEndsPrivate)'
<1> SUFFICES ASSUME Inv, [Next]_vars
             PROVE  ChildConnected' /\ (Serialized => ParentEndsPrivate')
  OBVIOUS
<1> USE DEF Inv, TypeOK, ChildConnected, ParentEndsPrivate, Advance
<1>1. ASSUME NEW r \in Runners, StartChild(r)
      PROVE  ChildConnected' /\ (Serialized => ParentEndsPrivate')
  <2>1. {<<r, "stdInRead">>, <<r, "stdOutWrite">>} \subseteq inheritable
    <3>1. stage[r] = "private" /\ OwnEnds(r)
      BY <1>1 DEF StartChild, OwnEndsInv
    <3> QED
      BY ONLY <3>1 DEF OwnEnds, HaveStdIn, HaveStdOut
  <2>2. ASSUME Serialized, NEW h \in inheritable
        PROVE  h[2] \notin {"stdInWrite", "stdOutRead"}
    <3>1. PICK q \in Runners, e \in Ends \cup {"process"} : h = <<q, e>>
      BY <2>2 DEF Handles
    <3>2. stage[q] \in {"stdIn", "stdOut", "stdInPrivate"} => q = r
      BY <1>1, <2>2 DEF StartChild, PrivateInv, UnderConstruction
    <3> QED
      BY <1>1, <2>2, <3>1, <3>2 DEF StartChild, PrivateInv
  <2> QED
    BY <1>1, <2>1, <2>2 DEF StartChild
<1>2. ASSUME NEW r \in Runners, ChildExits(r)
      PROVE  ChildConnected' /\ (Serialized => ParentEndsPrivate')
  BY <1>2 DEF ChildExits
<1>3. ASSUME NEW r \in Runners,
             CreateStdIn(r) \/ CreateStdOut(r) \/ DisallowStdIn(r) \/ DisallowStdOut(r)
               \/ Fail(r) \/ Destroy(r)
      PROVE  ChildConnected' /\ (Serialized => ParentEndsPrivate')
  BY <1>3 DEF CreateStdIn, CreateStdOut, CreatePipe, DisallowStdIn, DisallowStdOut,
              DisallowInheritance, Fail, Destroy, CloseHandles
<1>4. CASE UNCHANGED vars
  BY <1>4 DEF vars
<1> QED
  BY <1>1, <1>2, <1>3, <1>4 DEF Next

THEOREM StartInvariance == Spec => []Inv
<1>1. Inv /\ [Next]_vars => Inv'
  BY NextType, NextOwnEnds, NextPrivate, NextChildren DEF Inv
<1> QED
  BY InitInv, <1>1, PTL DEF Spec

(* Every variable of RunnerStart has its type. *)
THEOREM StartTypeCorrect == Spec => []TypeOK
<1>1. Inv => TypeOK
  BY DEF Inv
<1> QED
  BY StartInvariance, <1>1, PTL

(* A failing constructor and a destructor close all handles of their runner, *)
(* and nothing else does.                                                    *)
THEOREM HandlesOwned == Spec => []OpenWhileStarted
<1>1. Inv => OpenWhileStarted
  BY DEF Inv, OwnEndsInv, OwnEnds, OpenWhileStarted
<1> QED
  BY StartInvariance, <1>1, PTL

(* A running child holds its ends of its pipes. *)
THEOREM ChildrenConnected == Spec => []ChildConnected
<1>1. Inv => ChildConnected
  BY DEF Inv
<1> QED
  BY StartInvariance, <1>1, PTL

(* When constructors exclude one another, no child holds the parent's end of *)
(* any pipe. The code does not make them do so.                              *)
THEOREM EndsStayPrivate == Spec => [](Serialized => ParentEndsPrivate)
<1>1. Inv => (Serialized => ParentEndsPrivate)
  BY DEF Inv
<1> QED
  BY StartInvariance, <1>1, PTL
=============================================================================
