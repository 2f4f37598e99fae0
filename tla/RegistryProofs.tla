--------------------------- MODULE RegistryProofs ---------------------------
(* Theorems about Registry, for all sets of keys, names and data.            *)
EXTENDS Registry, TLAPS

Untouched(n) == n \in Names \ dirty /\ expected[n] # NoData

(* While the tree is copied the source holds all that an earlier try has not *)
(* moved, and the destination the rest and what was copied; from then on the *)
(* destination holds everything.                                             *)
AtDestination(n) == data[to][n] = expected[n]
CopyProgress(n) ==
  IF data[from][n] = NoData THEN expected[n] # NoData => AtDestination(n)
  ELSE data[from][n] = expected[n] /\ (n \in copied => AtDestination(n))
ProgressInv ==
  /\ step \in {"open", "create", "copyOpen"} => copied = {}
  /\ step = "copy" => \A n \in Names \ dirty : CopyProgress(n)
  /\ step \in {"deleteTree", "deleteKey"} =>
       \A n \in Names : Untouched(n) => AtDestination(n)

(* A destination that was not deleted since it was opened exists.            *)
DestinationInv ==
  step \in {"copyOpen", "copy"} /\ "destination" \notin gone => to \in exists

(* With the default view there is a handle during the copy only.             *)
HandleInv ==
  /\ step \in {"none", "open"} => handles = {}
  /\ step = "open" => view = "Forced"
  /\ view = "Default" =>
       /\ step \notin {"copyOpen", "copy"} => handles = {}
       /\ step \in {"copyOpen", "copy"} => handles = {"destination"}

Inv == TypeOK /\ DestinationInv /\ ProgressInv /\ HandleInv /\ NothingLost

LEMMA InitInv == Init => Inv
<1> SUFFICES ASSUME Init PROVE Inv
  OBVIOUS
<1>1. TypeOK
  BY RegistryAssumption DEF Init, TypeOK, Empty, NoData, Views, Steps
<1> QED
  BY <1>1 DEF Init, Inv, DestinationInv, ProgressInv, HandleInv, NothingLost, Empty

LEMMA NextType == TypeOK /\ DestinationInv /\ [Next]_vars => TypeOK'
<1> SUFFICES ASSUME TypeOK, DestinationInv, [Next]_vars PROVE TypeOK'
  OBVIOUS
<1> USE DEF TypeOK, move, registry
<1>1. ASSUME NEW k \in Keys, CreateKey(k) PROVE TypeOK'
  BY <1>1 DEF CreateKey
<1>2. ASSUME NEW k \in Keys, DeleteKey(k) PROVE TypeOK'
  BY <1>2 DEF DeleteKey, Delete, Empty, Stored
<1>3. ASSUME NEW k \in Keys, OtherCreates(k) PROVE TypeOK'
  BY <1>3 DEF OtherCreates
<1>4. ASSUME NEW k \in Keys, OtherDeletes(k) PROVE TypeOK'
  BY <1>4 DEF OtherDeletes, Delete, Empty, Stored
<1>5. ASSUME NEW k \in Keys, NEW n \in Names, NEW d \in Data \cup {NoData},
             OtherWrites(k, n, d)
      PROVE  TypeOK'
  BY <1>5 DEF OtherWrites
<1>6. ASSUME NEW v \in Views, NEW f \in Keys, NEW t \in Keys, MoveKey(v, f, t)
      PROVE  TypeOK'
  BY <1>6 DEF MoveKey, Retry, Steps, Empty
<1>7. CASE OpenSource
  BY <1>7 DEF OpenSource, Steps
<1>8. CASE CreateDestination
  BY <1>8 DEF CreateDestination, Steps
<1>9. ASSUME NEW n \in Names, CopyName(n) PROVE TypeOK'
  <2>1. to \in exists /\ from \in Keys /\ to \in Keys
    BY <1>9 DEF CopyName, DestinationInv
  <2>2. data' \in [Keys -> [Names -> Data \cup {NoData}]]
    BY <1>9, <2>1 DEF CopyName
  <2>3. \A k \in Keys \ exists' : data'[k] = Empty
    BY <1>9, <2>1 DEF CopyName
  <2> QED
    BY <1>9, <2>2, <2>3 DEF CopyName, Steps
<1>10. ASSUME NEW n \in Names, DeleteName(n) PROVE TypeOK'
  <2>1. from \in exists
    BY <1>10 DEF DeleteName, Stored, Empty
  <2>2. data' \in [Keys -> [Names -> Data \cup {NoData}]]
    BY <1>10 DEF DeleteName
  <2>3. \A k \in Keys \ exists' : data'[k] = Empty
    BY <1>10, <2>1 DEF DeleteName
  <2> QED
    BY <1>10, <2>2, <2>3 DEF DeleteName
<1>11. CASE CopyDone \/ DeleteTreeDone \/ Fails \/ CopyFails \/ Ends
  BY <1>11 DEF CopyDone, DeleteTreeDone, Fails, CopyFails, Ends, Steps,
               ClosedAfterCopy, Released
<1>12. CASE DeleteSource
  BY <1>12 DEF DeleteSource, Delete, Empty, Steps, Released
<1>13. CASE UNCHANGED vars
  BY <1>13 DEF vars
<1>14. CASE BeginCopy
  BY <1>14 DEF BeginCopy, Steps
<1> QED
  BY <1>1, <1>2, <1>3, <1>4, <1>5, <1>6, <1>7, <1>8, <1>9, <1>10, <1>11,
     <1>12, <1>13, <1>14 DEF Next

LEMMA NextDestination == TypeOK /\ DestinationInv /\ [Next]_vars => DestinationInv'
BY DEF TypeOK, DestinationInv, Next, vars, registry, move, CreateKey, DeleteKey,
       OtherCreates, OtherDeletes, OtherWrites, MoveKey, OpenSource,
       CreateDestination, BeginCopy, CopyName, CopyDone, DeleteName, DeleteTreeDone,
       DeleteSource, Fails, CopyFails, Ends, Delete

LEMMA NextHandles == TypeOK /\ HandleInv /\ [Next]_vars => HandleInv'
<1> SUFFICES ASSUME TypeOK, HandleInv, [Next]_vars PROVE HandleInv'
  OBVIOUS
<1> USE DEF TypeOK, Views, HandleInv, move, registry
<1>1. ASSUME NEW k \in Keys,
             CreateKey(k) \/ DeleteKey(k) \/ OtherCreates(k) \/ OtherDeletes(k)
      PROVE  HandleInv'
  BY <1>1 DEF CreateKey, DeleteKey, OtherCreates, OtherDeletes
<1>2. ASSUME NEW k \in Keys, NEW n \in Names, NEW d \in Data \cup {NoData},
             OtherWrites(k, n, d)
      PROVE  HandleInv'
  BY <1>2 DEF OtherWrites
<1>3. ASSUME NEW v \in Views, NEW f \in Keys, NEW t \in Keys, MoveKey(v, f, t)
      PROVE  HandleInv'
  BY <1>3 DEF MoveKey
<1>4. CASE OpenSource \/ CreateDestination \/ BeginCopy \/ CopyDone \/ DeleteTreeDone
  BY <1>4 DEF OpenSource, CreateDestination, BeginCopy, CopyDone, DeleteTreeDone,
              ClosedAfterCopy
<1>5. ASSUME NEW n \in Names, CopyName(n) \/ DeleteName(n) PROVE HandleInv'
  BY <1>5 DEF CopyName, DeleteName
<1>6. CASE DeleteSource \/ Fails \/ CopyFails \/ Ends
  BY <1>6 DEF DeleteSource, Fails, CopyFails, Ends, Released, ClosedAfterCopy
<1>7. CASE UNCHANGED vars
  BY <1>7 DEF vars
<1> QED
  BY <1>1, <1>2, <1>3, <1>4, <1>5, <1>6, <1>7 DEF Next

(* Nothing is deleted from the source that the destination does not hold,    *)
(* and nothing but the other program and a complete deletion touches what    *)
(* the destination holds.                                                    *)
LEMMA NextProgress ==
  Inv /\ [Next]_vars => ProgressInv' /\ NothingLost'
<1> SUFFICES ASSUME Inv, [Next]_vars PROVE ProgressInv' /\ NothingLost'
  OBVIOUS
<1> USE DEF Inv, TypeOK, Untouched, AtDestination, CopyProgress, ProgressInv,
           NothingLost, move, registry
<1>1. ASSUME NEW k \in Keys, CreateKey(k) \/ OtherCreates(k)
      PROVE  ProgressInv' /\ NothingLost'
  BY <1>1 DEF CreateKey, OtherCreates
<1>2. ASSUME NEW k \in Keys, DeleteKey(k) \/ OtherDeletes(k)
      PROVE  ProgressInv' /\ NothingLost'
  <2>1. ASSUME NEW j \in Keys, NEW n \in Names \ dirty'
        PROVE  data'[j][n] = data[j][n] /\ n \notin dirty
    BY <1>2, <2>1 DEF DeleteKey, OtherDeletes, Delete, Stored, Empty
  <2>2. /\ from' = from /\ to' = to /\ copied' = copied /\ expected' = expected
        /\ step' = step
    BY <1>2 DEF DeleteKey, OtherDeletes
  <2> QED
    BY <2>1, <2>2
<1>3. ASSUME NEW k \in Keys, NEW m \in Names, NEW d \in Data \cup {NoData},
             OtherWrites(k, m, d)
      PROVE  ProgressInv' /\ NothingLost'
  <2>1. ASSUME NEW j \in Keys, NEW n \in Names \ dirty'
        PROVE  data'[j][n] = data[j][n] /\ n \notin dirty
    BY <1>3, <2>1 DEF OtherWrites
  <2> QED
    BY <1>3, <2>1 DEF OtherWrites
<1>4. ASSUME NEW v \in Views, NEW f \in Keys, NEW t \in Keys, MoveKey(v, f, t)
      PROVE  ProgressInv' /\ NothingLost'
  <2>1. CASE Retry(f, t)
    BY <1>4, <2>1 DEF MoveKey, Retry
  <2>2. CASE ~Retry(f, t)
    BY <1>4, <2>2 DEF MoveKey, Empty
  <2> QED
    BY <2>1, <2>2
<1>5. CASE OpenSource
  BY <1>5 DEF OpenSource
<1>6. CASE CreateDestination
  BY <1>6 DEF CreateDestination
<1>7. ASSUME NEW m \in Names, CopyName(m) PROVE ProgressInv' /\ NothingLost'
  <2>1. from # to
    BY <1>7 DEF CopyName
  <2>2. /\ data'[from] = data[from]
        /\ data'[to] = [data[to] EXCEPT ![m] = data[from][m]]
    BY <1>7, <2>1 DEF CopyName
  <2> QED
    BY <1>7, <2>1, <2>2 DEF CopyName
<1>8. CASE CopyDone
  <2>1. ASSUME NEW n \in Names, Untouched(n) PROVE data[to][n] = expected[n]
    BY <1>8, <2>1 DEF CopyDone, CopyComplete, Stored
  <2> QED
    BY <1>8, <2>1 DEF CopyDone
<1>9. ASSUME NEW m \in Names, DeleteName(m) PROVE ProgressInv' /\ NothingLost'
  BY <1>9 DEF DeleteName
<1>10. CASE DeleteSource
  BY <1>10 DEF DeleteSource, Delete
<1>11. CASE DeleteTreeDone \/ Fails \/ CopyFails \/ Ends \/ UNCHANGED vars
  BY <1>11 DEF DeleteTreeDone, Fails, CopyFails, Ends, vars
<1>12. CASE BeginCopy
  <2>1. ASSUME NEW n \in Names \ dirty', data[from][n] # NoData
        PROVE  expected'[n] = data[from][n]
    BY <1>12, <2>1 DEF BeginCopy, Stored
  <2>2. ASSUME NEW n \in Names \ dirty', data[from][n] = NoData
        PROVE  n \notin dirty /\ expected'[n] = expected[n]
    BY <1>12, <2>2 DEF BeginCopy, Stored
  <2>3. /\ data' = data /\ from' = from /\ to' = to /\ copied' = {} /\ step' = "copy"
    BY <1>12 DEF BeginCopy
  <2>4. ASSUME NEW n \in Names \ dirty', expected'[n] # NoData
        PROVE  expected'[n] \in {data[from][n], data[to][n]}
    BY <2>1, <2>2, <2>4
  <2> QED
    BY <2>1, <2>2, <2>3, <2>4
<1> QED
  BY <1>1, <1>2, <1>3, <1>4, <1>5, <1>6, <1>7, <1>8, <1>9, <1>10, <1>11,
     <1>12 DEF Next

THEOREM MoveInvariance == Spec => []Inv
<1>1. Inv /\ [Next]_vars => Inv'
  BY NextType, NextDestination, NextHandles, NextProgress DEF Inv
<1> QED
  BY InitInv, <1>1, PTL DEF Spec

(* Every variable of Registry has its type. *)
THEOREM RegistryTypeCorrect == Spec => []TypeOK
<1>1. Inv => TypeOK
  BY DEF Inv
<1> QED
  BY MoveInvariance, <1>1, PTL

(* MoveKey() loses nothing but what another program wrote behind its back,   *)
(* wherever it fails or is cut off and however often it is tried again, for  *)
(* any number of names and keys.                                             *)
THEOREM MoveLosesNothing == Spec => []NothingLost
<1>1. Inv => NothingLost
  BY DEF Inv
<1> QED
  BY MoveInvariance, <1>1, PTL

(* MoveKey() closes its handles on every way out. *)
THEOREM MoveClosesHandles == Spec => []NoHandleLeft
<1>1. Inv => NoHandleLeft
  BY DEF Inv, HandleInv, NoHandleLeft
<1> QED
  BY MoveInvariance, <1>1, PTL

(* A MoveKey() that returns has moved everything that nobody else touched.   *)
THEOREM MoveIsComplete == Spec => MovedOnReturn
<1>1. Inv /\ [Next]_vars =>
        [step = "deleteKey" /\ step' = "none" /\ from \notin exists' =>
           \A n \in Names \ dirty :
             expected[n] # NoData => data'[to][n] = expected[n]]_vars
  <2> SUFFICES ASSUME Inv, [Next]_vars, step = "deleteKey", step' = "none",
                      NEW n \in Names \ dirty, expected[n] # NoData
               PROVE  data'[to][n] = expected[n]
    OBVIOUS
  <2>1. data[to][n] = expected[n] /\ from # to /\ to \in Keys
    BY DEF Inv, ProgressInv, AtDestination, Untouched, TypeOK
  <2>2. CASE DeleteSource
    BY <2>1, <2>2 DEF DeleteSource, Delete, Inv, TypeOK
  <2>3. data' = data \/ DeleteSource
    BY DEF Next, vars, registry, move, CreateKey, DeleteKey, OtherCreates, OtherDeletes,
           OtherWrites, MoveKey, OpenSource, CreateDestination, BeginCopy, CopyName, CopyDone,
           DeleteName, DeleteTreeDone, Fails, CopyFails, Ends
  <2> QED
    BY <2>1, <2>2, <2>3
<1> QED
  BY MoveInvariance, <1>1, PTL DEF MovedOnReturn, Spec

=============================================================================
