-------------------------- MODULE BioService_proofs --------------------------
(***************************************************************************)
(* What holds of BioService for every set of requests, calls, drivers,     *)
(* users and every bound on the indices.                                   *)
(***************************************************************************)
EXTENDS BioService, WellFoundedInduction, TLAPS

(* The places in which a thread works on the device Dev(r). *)
AtDevice == {"trylock", "unlocked"} \cup Sections

(* The strengthening that makes the type invariant inductive: a clean of all
   drivers works on a driver of the list, and a session has an index. *)
DeviceKnown ==
  \A r \in Reqs : at[r] \in AtDevice /\ CleansAll(r) => pos[r] <= Len(DrvList)

IndexKnown ==
  \A r \in Reqs : at[r] \in {"running", "matching"} => slot[r] # AnyIdx

Typed == TypeOK /\ DeviceKnown /\ IndexKnown

-----------------------------------------------------------------------------
(* Lemmas about the operators.                                              *)

(* Every code an operation may end with is a code of the framework. *)
LEMMA CodeType ==
  ASSUME NEW t \in DOMAIN OpsType, NEW d \in 0 .. 4
  PROVE  Code(t, d) \in Codes
BY DEF Codes

(* ... and so is every outcome a session of an operation may leave. *)
LEMMA OutcomesType ==
  ASSUME NEW o \in AllOps, NEW e \in BOOLEAN
  PROVE  Outcomes(o, e) \subseteq Codes
<1>1. AllOps \cup {"Comm", "Open", "Close"} \subseteq DOMAIN OpsType
  BY DEF AllOps, AsyncOps, DbOps, OpsType
<1>2. \A t \in AllOps \cup {"Comm", "Open", "Close"} :
        /\ Code(t, Success) \in Codes /\ Code(t, Fail) \in Codes
        /\ Code(t, TimedOut) \in Codes /\ Code(t, StopByUser) \in Codes
        /\ Code(t, Error) \in Codes
  BY <1>1, CodeType DEF Success, Fail, Error, TimedOut, StopByUser
<1>3. StopResult(o) \in Codes
  BY <1>2 DEF StopResult
<1>4. EffectiveOutcomes(o) \subseteq Codes
  BY <1>2, <1>3 DEF EffectiveOutcomes, AllOps, AsyncOps, DbOps
<1>5. VainOutcomes(o) \subseteq Codes
  BY <1>2, <1>3 DEF VainOutcomes, AllOps, AsyncOps, DbOps
<1> QED
  BY <1>2, <1>4, <1>5 DEF Outcomes

(* So is the value the drivers initialise the registers with. *)
LEMMA IdleType == DevIdle \in Codes
<1>1. "Comm" \in DOMAIN OpsType
  BY DEF OpsType
<1> QED
  BY <1>1, CodeType DEF DevIdle

(* The index the service chooses exists, and no row of the user has it. *)
LEMMA EmptyIndexFree ==
  ASSUME rows \subseteq Rows, NEW d, NEW u
  PROVE  EmptyIndex(d, u) \in 0 .. MaxIdx + 1 /\ EmptyIndex(d, u) \notin Taken(d, u)
<1> DEFINE Free == { i \in 0 .. MaxIdx + 1 : i \notin Taken(d, u) }
<1>0. MaxIdx \in Nat
  BY ServiceAssumption
<1>1. \A i \in Taken(d, u) : i \in 0 .. MaxIdx
  BY DEF Taken, Rows, Indices
<1>2. MaxIdx + 1 \in Free /\ Free \subseteq Nat
  BY <1>0, <1>1
<1>3. PICK i \in Free : \A j \in Free : ~ <<j, i>> \in OpToRel(<, Nat)
  BY <1>2, NatLessThanWellFounded, WFMin
<1>4. \A j \in Free : ~ j < i
  BY <1>2, <1>3 DEF OpToRel
<1>5. i \in 0 .. MaxIdx + 1 /\ i \notin Taken(d, u)
  OBVIOUS
<1>6. ASSUME NEW j \in 0 .. i - 1 PROVE j \in Taken(d, u)
  BY <1>0, <1>4, <1>5, <1>6
<1> QED
  BY <1>5, <1>6 DEF EmptyIndex

-----------------------------------------------------------------------------
(* What Requests says of the parts of a request: only an enrollment may leave
   the choice of the index to the service. *)
LEMMA CallType ==
  ASSUME Typed, NEW r \in Reqs
  PROVE  /\ Kind(r) \in AllOps
         /\ call[r].uid \in Uids
         /\ call[r].drv \in Drivers \cup {All}
         /\ call[r].idx \in Slots
         /\ call[r].idx = AnyIdx => Kind(r) = "Enroll"
BY ServiceAssumption DEF Typed, TypeOK, Kind, Requests, Slots, Indices

(* The device a thread works on has a driver. *)
LEMMA DevType ==
  ASSUME Typed, NEW r \in Reqs, at[r] \in AtDevice \/ MoreDrivers(r)
  PROVE  Dev(r) \in Drivers
<1>1. CASE CleansAll(r)
  <2>1. pos[r] \in 1 .. Len(DrvList)
    BY <1>1, ServiceAssumption DEF Typed, TypeOK, DeviceKnown, MoreDrivers
  <2> QED
    BY <1>1, <2>1, ServiceAssumption DEF Dev
<1>2. CASE ~ CleansAll(r)
  BY <1>2, CallType DEF Dev, CleansAll
<1> QED
  BY <1>1, <1>2

-----------------------------------------------------------------------------
(* Type correctness: the steps.                                             *)

(* An answer leaves the request finished or, to clean all, at the next
   driver of the list. *)
LEMMA AnswerType ==
  ASSUME Typed, NEW r \in Reqs, NEW from, NEW code \in 0 .. 5,
         Answer(r, from, code), from \in AtDevice \/ MoreDrivers(r)
  PROVE  /\ at' \in [Reqs -> Places]
         /\ pos' \in [Reqs -> 1 .. Len(DrvList) + 1]
         /\ ret' \in [Reqs -> 0 .. 5]
         /\ at'[r] \in {"lookup", "done"}
         /\ \A q \in Reqs \ {r} : at'[q] = at[q] /\ pos'[q] = pos[q]
<1>1. CASE CleansAll(r)
  <2>1. pos[r] \in 1 .. Len(DrvList)
    BY <1>1, ServiceAssumption DEF Typed, TypeOK, DeviceKnown, MoreDrivers, Answer, Goes
  <2>2. pos[r] + 1 \in 1 .. Len(DrvList) + 1
    BY <2>1, ServiceAssumption
  <2>3. /\ at' = [at EXCEPT ![r] = "lookup"] /\ pos' = [pos EXCEPT ![r] = @ + 1]
        /\ ret' = [ret EXCEPT ![r] = IF @ = 0 THEN code ELSE @]
    BY <1>1 DEF Answer, Goes
  <2>4. /\ at \in [Reqs -> Places] /\ pos \in [Reqs -> 1 .. Len(DrvList) + 1]
        /\ ret \in [Reqs -> 0 .. 5] /\ "lookup" \in Places
    BY DEF Typed, TypeOK, Places
  <2> QED
    BY <2>2, <2>3, <2>4
<1>2. CASE ~ CleansAll(r)
  BY <1>2 DEF Answer, Goes, Typed, TypeOK, Places
<1> QED
  BY <1>1, <1>2

(* The start of the daemon satisfies the typing invariant. *)
LEMMA InitTyped == Init => Typed
<1> SUFFICES ASSUME Init PROVE Typed
  OBVIOUS
<1>1. NoCall \in Calls
  BY ServiceAssumption DEF NoCall
<1>2. Len(DrvList) \in Nat
  BY ServiceAssumption
<1>3. TypeOK
  BY <1>1, <1>2, IdleType DEF Init, TypeOK, Each, Places, Slots
<1>4. DeviceKnown /\ IndexKnown
  BY DEF Init, DeviceKnown, IndexKnown, Each, AtDevice, Sections
<1> QED
  BY <1>3, <1>4 DEF Typed

(* Every step keeps it. *)
LEMMA NextTyped == Typed /\ [Next]_vars => Typed'
<1> SUFFICES ASSUME Typed, [Next]_vars PROVE Typed'
  OBVIOUS
<1> USE DEF history, request
<1>1. ASSUME NEW r \in Reqs, NEW c \in Calls, Submit(r, c) PROVE Typed'
  <2>1. c.idx \in Slots
    BY ServiceAssumption DEF Requests, Slots, Indices
  <2>2. TypeOK'
    BY <1>1, <2>1 DEF Submit, Goes, Typed, TypeOK, Places
  <2>3. /\ at'[r] \in {"auth", "lookup"} /\ pos' = pos
        /\ \A q \in Reqs \ {r} : at'[q] = at[q] /\ call'[q] = call[q] /\ slot'[q] = slot[q]
    BY <1>1 DEF Submit, Goes, Typed, TypeOK
  <2>4. DeviceKnown'
    BY <2>3 DEF Typed, DeviceKnown, CleansAll, AtDevice, Sections
  <2>5. IndexKnown'
    BY <2>3 DEF Typed, IndexKnown
  <2> QED
    BY <2>2, <2>4, <2>5 DEF Typed
<1>2. ASSUME NEW r \in Reqs, Authorize(r) PROVE Typed'
  <2>1. /\ at' \in [Reqs -> Places] /\ at'[r] \in {"lookup", "done"}
        /\ \A q \in Reqs \ {r} : at'[q] = at[q]
    BY <1>2 DEF Authorize, Goes, Typed, TypeOK, Places
  <2>2. ret' \in [Reqs -> 0 .. 5]
    <3>1. ret \in [Reqs -> 0 .. 5] /\ RetPermissionDenied \in 0 .. 5
      BY DEF Typed, TypeOK, RetPermissionDenied
    <3>2. ret' = ret \/ ret' = [ret EXCEPT ![r] = RetPermissionDenied]
      BY <1>2 DEF Authorize
    <3> QED
      BY <3>1, <3>2
  <2> QED
    BY <1>2, <2>1, <2>2 DEF Authorize, Typed, TypeOK, DeviceKnown, IndexKnown, CleansAll,
              AtDevice, Sections
<1>3. ASSUME NEW r \in Reqs, Lookup(r) PROVE Typed'
  <2>1. CASE Dev(r) \in devList
    BY <1>3, <2>1, ServiceAssumption DEF Lookup, Goes, Typed, TypeOK, Places, DeviceKnown,
              IndexKnown, CleansAll, AtDevice, Sections, MoreDrivers
  <2>2. CASE Dev(r) \notin devList
    <3>1. PICK code \in 0 .. 5 : Answer(r, "lookup", code)
      BY <1>3, <2>2 DEF Lookup, Refused, RetOpsSuccess, RetNoSuchDevice
    <3> QED
      BY <1>3, <3>1, AnswerType DEF Lookup, Typed, TypeOK, DeviceKnown, IndexKnown,
              CleansAll, AtDevice, Sections
  <2> QED
    BY <2>1, <2>2
<1>4. ASSUME NEW r \in Reqs, TryLock(r) PROVE Typed'
  <2> Dev(r) \in Drivers
    BY <1>4, DevType DEF TryLock, AtDevice
  <2>1. CASE mutex[Dev(r)] = NoReq
    <3>1. /\ at[r] = "trylock" /\ at' = [at EXCEPT ![r] = "locked"]
          /\ UNCHANGED <<call, pos, slot>>
      BY <1>4, <2>1 DEF TryLock, Goes
    <3>2. TypeOK'
      BY <1>4, <2>1, <3>1 DEF TryLock, Typed, TypeOK, Places
    <3>3. DeviceKnown' /\ IndexKnown'
      BY <3>1 DEF Typed, TypeOK, DeviceKnown, IndexKnown, CleansAll, AtDevice, Sections
    <3> QED
      BY <3>2, <3>3 DEF Typed
  <2>2. CASE mutex[Dev(r)] # NoReq
    <3>1. PICK code \in 0 .. 5 : Answer(r, "trylock", code)
      BY <1>4, <2>2 DEF TryLock, Refused, RetOpsSuccess, RetDeviceBusy
    <3> QED
      BY <1>4, <2>2, <3>1, AnswerType DEF TryLock, Typed, TypeOK, DeviceKnown, IndexKnown,
              CleansAll, AtDevice, Sections
  <2> QED
    BY <2>1, <2>2
<1>5. ASSUME NEW r \in Reqs, Begin(r) PROVE Typed'
  <2>1. /\ slot'[r] # AnyIdx /\ slot' \in [Reqs -> Slots]
        /\ \A q \in Reqs \ {r} : slot'[q] = slot[q]
    <3>1. CASE UNCHANGED slot /\ slot[r] # AnyIdx
      BY <3>1 DEF Typed, TypeOK
    <3>2. CASE \E i \in 0 .. EmptyIndex(Dev(r), call[r].uid) : slot' = [slot EXCEPT ![r] = i]
      <4>1. EmptyIndex(Dev(r), call[r].uid) \in 0 .. MaxIdx + 1
        BY EmptyIndexFree DEF Typed, TypeOK
      <4>2. PICK i \in 0 .. EmptyIndex(Dev(r), call[r].uid) : slot' = [slot EXCEPT ![r] = i]
        BY <3>2
      <4>3. i \in Slots /\ i # AnyIdx
        BY <4>1, ServiceAssumption DEF Slots, AnyIdx
      <4> QED
        BY <4>2, <4>3 DEF Typed, TypeOK
    <3> QED
      BY <1>5, <3>1, <3>2, Zenon DEF Begin
  <2>2. shown' \in [Reqs -> BOOLEAN]
    BY <1>5, Zenon DEF Begin, Typed, TypeOK
  <2>3. /\ at[r] = "locked" /\ at' = [at EXCEPT ![r] = "running"]
        /\ UNCHANGED <<call, pos>>
    BY <1>5 DEF Begin, Goes
  <2>4. TypeOK'
    BY <1>5, <2>1, <2>2, <2>3 DEF Begin, Typed, TypeOK, Places
  <2>5. DeviceKnown' /\ IndexKnown'
    BY <2>1, <2>3 DEF Typed, TypeOK, DeviceKnown, IndexKnown, CleansAll, AtDevice, Sections
  <2> QED
    BY <2>4, <2>5 DEF Typed
<1>6. ASSUME NEW r \in Reqs, Opened(r) \/ Store(r) \/ Erase(r) PROVE Typed'
  <2>1. Dev(r) \in Drivers
    BY <1>6, DevType DEF Opened, Store, Erase, AtDevice, Sections
  <2>2. CASE Opened(r)
    <3>1. Code("Open", Success) \in Codes
      BY CodeType DEF OpsType, Success
    <3> QED
      BY <2>1, <2>2, <3>1 DEF Opened, WriteResult, Typed, TypeOK, DeviceKnown, IndexKnown,
              CleansAll
  <2>3. CASE Store(r)
    <3>1. slot[r] \in Indices
      BY <2>3, ServiceAssumption DEF Store, Typed, TypeOK, IndexKnown, Slots, Indices, AnyIdx
    <3>2. Row(r) \in Rows
      BY <2>1, <3>1, CallType DEF Row, Rows
    <3> QED
      BY <2>3, <3>2 DEF Store, Typed, TypeOK, DeviceKnown, IndexKnown, CleansAll
  <2>4. CASE Erase(r)
    BY <2>4 DEF Erase, Typed, TypeOK, DeviceKnown, IndexKnown, CleansAll
  <2> QED
    BY <1>6, <2>2, <2>3, <2>4
<1>7. ASSUME NEW r \in Reqs, Fetch(r) PROVE Typed'
  BY <1>7 DEF Fetch, Goes, Typed, TypeOK, Places, DeviceKnown, IndexKnown, CleansAll,
              AtDevice, Sections
<1>8. ASSUME NEW r \in Reqs, End(r) PROVE Typed'
  <2>1. Dev(r) \in Drivers
    BY <1>8, DevType DEF End, AtDevice, Sections
  <2>2. PICK e \in BOOLEAN :
          /\ effect' = [effect EXCEPT ![r] = e]
          /\ \E code \in Outcomes(Kind(r), e) :
               WriteResult(Dev(r), code) /\ outcome' = [outcome EXCEPT ![r] = code]
    BY <1>8 DEF End
  <2>3. PICK code \in Codes :
          WriteResult(Dev(r), code) /\ outcome' = [outcome EXCEPT ![r] = code]
    BY <2>2, OutcomesType, CallType
  <2>4. TypeOK'
    BY <1>8, <2>1, <2>2, <2>3 DEF End, WriteResult, Typed, TypeOK, Places
  <2>5. DeviceKnown' /\ IndexKnown'
    BY <1>8 DEF End, Typed, TypeOK, DeviceKnown, IndexKnown, CleansAll, AtDevice, Sections
  <2> QED
    BY <2>4, <2>5 DEF Typed
<1>9. ASSUME NEW r \in Reqs, Unlock(r) PROVE Typed'
  <2>1. Dev(r) \in Drivers
    BY <1>9, DevType DEF Unlock, Goes, AtDevice, Sections
  <2> QED
    BY <1>9, <2>1 DEF Unlock, Goes, Typed, TypeOK, Places, DeviceKnown, IndexKnown,
              CleansAll, AtDevice, Sections
<1>10. ASSUME NEW r \in Reqs, ReadResult(r) PROVE Typed'
  <2>1. Dev(r) \in Drivers
    BY <1>10, DevType DEF ReadResult, AtDevice
  <2>2. PICK code \in 0 .. 5 : Answer(r, "unlocked", code)
    BY <1>10, <2>1 DEF ReadResult, Reply, RetOpsSuccess, RetOpsNoMatch, RetOpsError
  <2> QED
    BY <1>10, <2>2, AnswerType DEF ReadResult, Typed, TypeOK, DeviceKnown, IndexKnown,
              CleansAll, AtDevice, Sections
<1>11. ASSUME NEW r \in Reqs, SystemClean(r) PROVE Typed'
  <2>1. /\ at' \in [Reqs -> Places] /\ at'[r] = "done"
        /\ \A q \in Reqs \ {r} : at'[q] = at[q]
    BY <1>11 DEF SystemClean, Goes, Typed, TypeOK, Places
  <2>2. ret' \in [Reqs -> 0 .. 5]
    <3>1. ret \in [Reqs -> 0 .. 5] /\ RetOpsSuccess \in 0 .. 5 /\ RetOpsError \in 0 .. 5
      BY DEF Typed, TypeOK, RetOpsSuccess, RetOpsError
    <3>2. PICK code \in 0 .. 5 : ret' = [ret EXCEPT ![r] = code]
      BY <1>11, <3>1 DEF SystemClean
    <3> QED
      BY <3>1, <3>2
  <2>3. rows' \subseteq Rows
    BY <1>11 DEF SystemClean, Typed, TypeOK
  <2> QED
    BY <1>11, <2>1, <2>2, <2>3 DEF SystemClean, Typed, TypeOK, DeviceKnown, IndexKnown,
              CleansAll, AtDevice, Sections
<1>12. CASE Hotplug
  BY <1>12 DEF Hotplug, Typed, TypeOK, DeviceKnown, IndexKnown, CleansAll
<1>13. ASSUME NEW r \in Reqs, Crash(r) PROVE Typed'
  <2>1. NoCall \in Calls /\ Len(DrvList) \in Nat
    BY ServiceAssumption DEF NoCall
  <2>2. TypeOK'
    BY <1>13, <2>1, IdleType DEF Crash, Typed, TypeOK, Each, Places, Slots
  <2>3. DeviceKnown' /\ IndexKnown'
    BY <1>13 DEF Crash, DeviceKnown, IndexKnown, Each, AtDevice, Sections
  <2> QED
    BY <2>2, <2>3 DEF Typed
<1>14. CASE UNCHANGED vars
  BY <1>14 DEF vars, Typed, TypeOK, DeviceKnown, IndexKnown, CleansAll
<1> QED
  BY <1>1, <1>2, <1>3, <1>4, <1>5, <1>6, <1>7, <1>8, <1>9, <1>10, <1>11, <1>12, <1>13,
     <1>14 DEF Next, Thread, Device

(* Every variable keeps its type; in particular every result a session leaves
   is a code of the framework and every answer a RetCode. *)
THEOREM TypeCorrect == Spec => []TypeOK
<1>1. Typed => TypeOK
  BY DEF Typed
<1> QED
  BY <1>1, InitTyped, NextTyped, PTL DEF Spec

-----------------------------------------------------------------------------
(* Who owns the mutexes.                                                    *)

(* A step that takes no thread into or out of a session and leaves the mutexes
   alone keeps the owners right. *)
LEMMA SameHolders ==
  ASSUME HolderInSession, mutex' = mutex,
         \A q \in Reqs : /\ at'[q] \in Sections <=> at[q] \in Sections
                         /\ at[q] \in Sections => Dev(q)' = Dev(q)
  PROVE  HolderInSession'
<1> SUFFICES ASSUME NEW q \in Reqs, NEW d \in Drivers
             PROVE  mutex[d] = q <=> at'[q] \in Sections /\ Dev(q)' = d
  BY DEF HolderInSession
<1>1. mutex[d] = q <=> at[q] \in Sections /\ Dev(q) = d
  BY DEF HolderInSession
<1> QED
  BY <1>1

(* The step of one thread that stays inside, or outside, its session. *)
LEMMA SameHoldersBy ==
  ASSUME Typed, HolderInSession, mutex' = mutex, NEW r \in Reqs,
         at'[r] \in Sections <=> at[r] \in Sections,
         at[r] \in Sections => call'[r] = call[r] /\ pos'[r] = pos[r],
         \A q \in Reqs \ {r} : at'[q] = at[q] /\ call'[q] = call[q] /\ pos'[q] = pos[q]
  PROVE  HolderInSession'
<1>1. \A q \in Reqs : at'[q] \in Sections <=> at[q] \in Sections
  OBVIOUS
<1>2. \A q \in Reqs : at[q] \in Sections => Dev(q)' = Dev(q)
  BY DEF Dev, CleansAll
<1> QED
  BY <1>1, <1>2, SameHolders

(* Every step keeps the owners of the mutexes right: TryLock and Unlock move
   both sides of the equivalence together, the others neither. *)
LEMMA NextHolder == Typed /\ HolderInSession /\ [Next]_vars => HolderInSession'
<1> SUFFICES ASSUME Typed, HolderInSession, [Next]_vars PROVE HolderInSession'
  OBVIOUS
<1> USE DEF history, request
<1>1. ASSUME NEW r \in Reqs, NEW c \in Calls, Submit(r, c) PROVE HolderInSession'
  BY <1>1, SameHoldersBy DEF Submit, Goes, Sections, Typed, TypeOK
<1>2. ASSUME NEW r \in Reqs, Authorize(r) PROVE HolderInSession'
  <2>1. at[r] = "auth" /\ at'[r] \in {"lookup", "done"} /\ \A q \in Reqs \ {r} : at'[q] = at[q]
    BY <1>2 DEF Authorize, Goes, Typed, TypeOK
  <2> QED
    BY <1>2, <2>1, SameHoldersBy DEF Authorize, Sections
<1>3. ASSUME NEW r \in Reqs, Lookup(r) PROVE HolderInSession'
  <2>1. CASE Dev(r) \in devList
    BY <1>3, <2>1, SameHoldersBy DEF Lookup, Goes, Sections, Typed, TypeOK
  <2>2. CASE Dev(r) \notin devList
    <3>1. PICK code \in 0 .. 5 : Answer(r, "lookup", code)
      BY <1>3, <2>2 DEF Lookup, Refused, RetOpsSuccess, RetNoSuchDevice
    <3> QED
      BY <1>3, <3>1, AnswerType, SameHoldersBy DEF Lookup, Sections
  <2> QED
    BY <2>1, <2>2
<1>4. ASSUME NEW r \in Reqs, TryLock(r) PROVE HolderInSession'
  <2>1. CASE mutex[Dev(r)] = NoReq
    <3>1. /\ at[r] = "trylock" /\ at'[r] = "locked"
          /\ \A q \in Reqs \ {r} : at'[q] = at[q]
      BY <1>4, <2>1 DEF TryLock, Goes, Typed, TypeOK
    <3>2. /\ mutex'[Dev(r)] = r
          /\ \A d \in Drivers \ {Dev(r)} : mutex'[d] = mutex[d]
      BY <1>4, <2>1, <3>1, DevType DEF TryLock, Typed, TypeOK, AtDevice
    <3>3. \A q \in Reqs : Dev(q)' = Dev(q)
      BY <1>4, <2>1 DEF TryLock, Dev, CleansAll
    <3>4. \A q \in Reqs : at[q] \in Sections => Dev(q) # Dev(r)
      BY <2>1, <3>1, DevType, ServiceAssumption DEF HolderInSession, AtDevice
    <3>5. \A d \in Drivers : mutex[d] # r
      BY <3>1 DEF HolderInSession, Sections
    <3> QED
      BY <3>1, <3>2, <3>3, <3>4, <3>5 DEF HolderInSession, Sections
  <2>2. CASE mutex[Dev(r)] # NoReq
    <3>1. PICK code \in 0 .. 5 : Answer(r, "trylock", code)
      BY <1>4, <2>2 DEF TryLock, Refused, RetOpsSuccess, RetDeviceBusy
    <3> QED
      BY <1>4, <2>2, <3>1, AnswerType, SameHoldersBy DEF TryLock, Sections, AtDevice
  <2> QED
    BY <2>1, <2>2
<1>5. ASSUME NEW r \in Reqs, Begin(r) PROVE HolderInSession'
  BY <1>5, SameHoldersBy DEF Begin, Goes, Sections, Typed, TypeOK
<1>6. ASSUME NEW r \in Reqs, Opened(r) \/ Store(r) \/ Erase(r) PROVE HolderInSession'
  BY <1>6, SameHoldersBy DEF Opened, Store, Erase
<1>7. ASSUME NEW r \in Reqs, Fetch(r) PROVE HolderInSession'
  BY <1>7, SameHoldersBy DEF Fetch, Goes, Sections, Typed, TypeOK
<1>8. ASSUME NEW r \in Reqs, End(r) PROVE HolderInSession'
  BY <1>8, SameHoldersBy DEF End, Sections, Typed, TypeOK
<1>9. ASSUME NEW r \in Reqs, Unlock(r) PROVE HolderInSession'
  <2>1. /\ at[r] = "ended" /\ at'[r] = "unlocked"
        /\ \A q \in Reqs \ {r} : at'[q] = at[q]
    BY <1>9 DEF Unlock, Goes, Typed, TypeOK
  <2>2. Dev(r) \in Drivers
    BY <2>1, DevType DEF AtDevice, Sections
  <2>3. /\ mutex'[Dev(r)] = NoReq
        /\ \A d \in Drivers \ {Dev(r)} : mutex'[d] = mutex[d]
    BY <1>9, <2>2 DEF Unlock, Typed, TypeOK
  <2>4. \A q \in Reqs : Dev(q)' = Dev(q)
    BY <1>9 DEF Unlock, Dev, CleansAll
  <2>5. \A q \in Reqs \ {r} : at[q] \in Sections => Dev(q) # Dev(r)
    BY <2>1, <2>2 DEF HolderInSession, Sections
  <2>6. \A d \in Drivers \ {Dev(r)} : mutex[d] # r
    BY DEF HolderInSession
  <2> QED
    BY <2>1, <2>2, <2>3, <2>4, <2>5, <2>6, ServiceAssumption DEF HolderInSession, Sections
<1>10. ASSUME NEW r \in Reqs, ReadResult(r) PROVE HolderInSession'
  <2>1. Dev(r) \in Drivers
    BY <1>10, DevType DEF ReadResult, AtDevice
  <2>2. PICK code \in 0 .. 5 : Answer(r, "unlocked", code)
    BY <1>10, <2>1 DEF ReadResult, Reply, RetOpsSuccess, RetOpsNoMatch, RetOpsError
  <2> QED
    BY <1>10, <2>2, AnswerType, SameHoldersBy DEF ReadResult, Sections, AtDevice
<1>11. ASSUME NEW r \in Reqs, SystemClean(r) PROVE HolderInSession'
  BY <1>11, SameHoldersBy DEF SystemClean, Goes, Sections, Typed, TypeOK
<1>12. CASE Hotplug
  BY <1>12, SameHolders DEF Hotplug, Dev, CleansAll
<1>13. ASSUME NEW r \in Reqs, Crash(r) PROVE HolderInSession'
  BY <1>13, ServiceAssumption DEF Crash, Each, HolderInSession, Sections
<1>14. CASE UNCHANGED vars
  BY <1>14, SameHolders DEF vars, Dev, CleansAll
<1> QED
  BY <1>1, <1>2, <1>3, <1>4, <1>5, <1>6, <1>7, <1>8, <1>9, <1>10, <1>11, <1>12, <1>13,
     <1>14 DEF Next, Thread, Device

(* Every mutex is owned by exactly the thread whose session it covers. *)
THEOREM HolderCorrect == Spec => []HolderInSession
<1>1. Init => HolderInSession
  BY ServiceAssumption DEF Init, HolderInSession, Each, Sections
<1> QED
  BY <1>1, InitTyped, NextTyped, NextHolder, PTL DEF Spec

(* Owners that are right exclude each other: the D-Bus handlers serialise
   what the drivers, which have no lock, rely on. *)
LEMMA HoldersExclude ==
  ASSUME Typed, HolderInSession PROVE MutualExclusion
BY DevType DEF HolderInSession, MutualExclusion, AtDevice

(* No two operations ever run on the same device at the same time, whatever
   the number of requests, drivers and devices. *)
THEOREM MutuallyExclusive == Spec => []MutualExclusion
BY InitTyped, NextTyped, HolderCorrect, HoldersExclude, PTL DEF Spec

-----------------------------------------------------------------------------
(* Whose result is in the register.                                         *)

Looking == {"ended", "unlocked"}

(* What a session writes is not the result another thread is to read, unless
   that thread is overtaken. *)
LEMMA WriteSpares ==
  ASSUME Typed, HolderInSession, NEW r \in Reqs, at[r] \in Sections, NEW code,
         WriteResult(Dev(r), code),
         NEW q \in Reqs \ {r}, at[q] \in Looking, ~ overtaken'[q]
  PROVE  result'[Dev(q)] = result[Dev(q)] /\ ~ overtaken[q]
<1>1. Dev(r) \in Drivers /\ Dev(q) \in Drivers
  BY DevType DEF AtDevice, Sections, Looking
<1>2. ~ overtaken[q] /\ (at[q] = "unlocked" => Dev(q) # Dev(r))
  BY DEF WriteResult
<1>3. at[q] = "ended" => Dev(q) # Dev(r)
  BY <1>1, HoldersExclude DEF MutualExclusion, Sections
<1> QED
  BY <1>1, <1>2, <1>3 DEF WriteResult, Typed, TypeOK, Looking

(* Any step that leaves the register alone and brings nobody to look at it. *)
LEMMA NobodyNewLooks ==
  ASSUME ResultKept, result' = result, outcome' = outcome,
         \A q \in Reqs : at'[q] \in Looking =>
           at[q] \in Looking /\ Dev(q)' = Dev(q) /\ overtaken'[q] = overtaken[q]
  PROVE  ResultKept'
BY DEF ResultKept, Looking

(* Every step keeps the results right: a write marks everybody who could read
   it by mistake as overtaken. *)
LEMMA NextKept ==
  Typed /\ HolderInSession /\ ResultKept /\ [Next]_vars => ResultKept'
<1> SUFFICES ASSUME Typed, HolderInSession, ResultKept, [Next]_vars PROVE ResultKept'
  OBVIOUS
<1> USE DEF history, request
<1>1. ASSUME NEW r \in Reqs, NEW c \in Calls, Submit(r, c) PROVE ResultKept'
  <2>1. at'[r] \notin Looking /\ \A q \in Reqs \ {r} : at'[q] = at[q] /\ call'[q] = call[q]
    BY <1>1 DEF Submit, Goes, Looking, Typed, TypeOK
  <2>2. \A q \in Reqs \ {r} : Dev(q)' = Dev(q)
    BY <1>1, <2>1 DEF Submit, Dev, CleansAll
  <2> QED
    BY <1>1, <2>1, <2>2, NobodyNewLooks DEF Submit
<1>2. ASSUME NEW r \in Reqs, Authorize(r) PROVE ResultKept'
  <2>1. at'[r] \notin Looking /\ \A q \in Reqs \ {r} : at'[q] = at[q]
    BY <1>2 DEF Authorize, Goes, Looking, Typed, TypeOK
  <2> QED
    BY <1>2, <2>1, NobodyNewLooks DEF Authorize, Dev, CleansAll
<1>3. ASSUME NEW r \in Reqs, Lookup(r) PROVE ResultKept'
  <2>1. CASE Dev(r) \in devList
    <3>1. at'[r] \notin Looking /\ \A q \in Reqs \ {r} : at'[q] = at[q]
      BY <1>3, <2>1 DEF Lookup, Goes, Looking, Typed, TypeOK
    <3> QED
      BY <1>3, <2>1, <3>1, NobodyNewLooks DEF Lookup, Dev, CleansAll
  <2>2. CASE Dev(r) \notin devList
    <3>1. PICK code \in 0 .. 5 : Answer(r, "lookup", code)
      BY <1>3, <2>2 DEF Lookup, Refused, RetOpsSuccess, RetNoSuchDevice
    <3>2. /\ at'[r] \notin Looking
          /\ \A q \in Reqs \ {r} : at'[q] = at[q] /\ pos'[q] = pos[q]
      BY <1>3, <3>1, AnswerType DEF Lookup, Looking
    <3> QED
      BY <1>3, <3>2, NobodyNewLooks DEF Lookup, Dev, CleansAll
  <2> QED
    BY <2>1, <2>2
<1>4. ASSUME NEW r \in Reqs, TryLock(r) PROVE ResultKept'
  <2>1. \A q \in Reqs \ {r} : overtaken'[q] = overtaken[q]
    BY <1>4 DEF TryLock, Typed, TypeOK
  <2>2. CASE mutex[Dev(r)] = NoReq
    <3>1. at'[r] \notin Looking /\ \A q \in Reqs \ {r} : at'[q] = at[q]
      BY <1>4, <2>2 DEF TryLock, Goes, Looking, Typed, TypeOK
    <3> QED
      BY <1>4, <2>1, <2>2, <3>1, NobodyNewLooks DEF TryLock, Dev, CleansAll
  <2>3. CASE mutex[Dev(r)] # NoReq
    <3>1. PICK code \in 0 .. 5 : Answer(r, "trylock", code)
      BY <1>4, <2>3 DEF TryLock, Refused, RetOpsSuccess, RetDeviceBusy
    <3>2. /\ at'[r] \notin Looking
          /\ \A q \in Reqs \ {r} : at'[q] = at[q] /\ pos'[q] = pos[q]
      BY <1>4, <3>1, AnswerType DEF AtDevice, Looking
    <3> QED
      BY <1>4, <2>1, <3>2, NobodyNewLooks DEF TryLock, Dev, CleansAll
  <2> QED
    BY <2>2, <2>3
<1>5. ASSUME NEW r \in Reqs, Begin(r) \/ Fetch(r) PROVE ResultKept'
  <2>1. at'[r] \notin Looking /\ \A q \in Reqs \ {r} : at'[q] = at[q]
    BY <1>5 DEF Begin, Fetch, Goes, Looking, Typed, TypeOK
  <2> QED
    BY <1>5, <2>1, NobodyNewLooks DEF Begin, Fetch, Dev, CleansAll
<1>6. ASSUME NEW r \in Reqs, Opened(r) PROVE ResultKept'
  <2> SUFFICES ASSUME NEW q \in Reqs, at'[q] \in Looking, ~ overtaken'[q]
               PROVE  result'[Dev(q)'] = outcome'[q]
    BY DEF ResultKept, Looking
  <2>1. q # r /\ at[q] \in Looking /\ Dev(q)' = Dev(q)
    BY <1>6 DEF Opened, Looking, Dev, CleansAll
  <2>2. result'[Dev(q)] = result[Dev(q)] /\ ~ overtaken[q]
    BY <1>6, <2>1, WriteSpares DEF Opened, Sections
  <2> QED
    BY <1>6, <2>1, <2>2 DEF Opened, ResultKept, Looking
<1>7. ASSUME NEW r \in Reqs, Store(r) \/ Erase(r) PROVE ResultKept'
  BY <1>7, NobodyNewLooks DEF Store, Erase, Dev, CleansAll
<1>8. ASSUME NEW r \in Reqs, End(r) PROVE ResultKept'
  <2>1. PICK code : WriteResult(Dev(r), code) /\ outcome' = [outcome EXCEPT ![r] = code]
    BY <1>8 DEF End
  <2>2. Dev(r) \in Drivers /\ at[r] \in Sections
    BY <1>8, DevType DEF End, AtDevice, Sections
  <2> SUFFICES ASSUME NEW q \in Reqs, at'[q] \in Looking, ~ overtaken'[q]
               PROVE  result'[Dev(q)'] = outcome'[q]
    BY DEF ResultKept, Looking
  <2>3. Dev(q)' = Dev(q)
    BY <1>8 DEF End, Dev, CleansAll
  <2>4. CASE q = r
    BY <2>1, <2>2, <2>3, <2>4 DEF WriteResult, Typed, TypeOK
  <2>5. CASE q # r
    <3>1. at[q] \in Looking
      BY <1>8, <2>5 DEF End, Typed, TypeOK
    <3>2. result'[Dev(q)] = result[Dev(q)] /\ ~ overtaken[q]
      BY <2>1, <2>2, <2>5, <3>1, WriteSpares
    <3>3. outcome'[q] = outcome[q]
      BY <2>1, <2>5 DEF Typed, TypeOK
    <3> QED
      BY <2>3, <3>1, <3>2, <3>3 DEF ResultKept, Looking
  <2> QED
    BY <2>4, <2>5
<1>9. ASSUME NEW r \in Reqs, Unlock(r) PROVE ResultKept'
  <2>1. \A q \in Reqs : at'[q] \in Looking => at[q] \in Looking
    BY <1>9 DEF Unlock, Goes, Looking, Typed, TypeOK
  <2> QED
    BY <1>9, <2>1, NobodyNewLooks DEF Unlock, Dev, CleansAll
<1>10. ASSUME NEW r \in Reqs, ReadResult(r) PROVE ResultKept'
  <2>1. Dev(r) \in Drivers
    BY <1>10, DevType DEF ReadResult, AtDevice
  <2>2. PICK code \in 0 .. 5 : Answer(r, "unlocked", code)
    BY <1>10, <2>1 DEF ReadResult, Reply, RetOpsSuccess, RetOpsNoMatch, RetOpsError
  <2>3. /\ at'[r] \notin Looking
        /\ \A q \in Reqs \ {r} : at'[q] = at[q] /\ pos'[q] = pos[q]
    BY <2>2, AnswerType DEF AtDevice, Looking
  <2> QED
    BY <1>10, <2>3, NobodyNewLooks DEF ReadResult, Dev, CleansAll
<1>11. ASSUME NEW r \in Reqs, SystemClean(r) PROVE ResultKept'
  <2>1. at'[r] \notin Looking /\ \A q \in Reqs \ {r} : at'[q] = at[q]
    BY <1>11 DEF SystemClean, Goes, Looking, Typed, TypeOK
  <2> QED
    BY <1>11, <2>1, NobodyNewLooks DEF SystemClean, Dev, CleansAll
<1>12. CASE Hotplug
  BY <1>12, NobodyNewLooks DEF Hotplug, Dev, CleansAll
<1>13. ASSUME NEW r \in Reqs, Crash(r) PROVE ResultKept'
  BY <1>13 DEF Crash, Each, ResultKept
<1>14. CASE UNCHANGED vars
  BY <1>14, NobodyNewLooks DEF vars, Dev, CleansAll
<1> QED
  BY <1>1, <1>2, <1>3, <1>4, <1>5, <1>6, <1>7, <1>8, <1>9, <1>10, <1>11, <1>12, <1>13,
     <1>14 DEF Next, Thread, Device

(* Who gave the device back and is not overtaken before it looks reads the
   outcome of its own session. *)
THEOREM OwnResultRead == Spec => []ResultKept
<1>1. Init => ResultKept
  BY DEF Init, ResultKept, Each
<1>2. Spec => [](Typed /\ HolderInSession)
  BY InitTyped, NextTyped, HolderCorrect, PTL DEF Spec
<1> QED
  BY <1>1, <1>2, NextKept, PTL DEF Spec

-----------------------------------------------------------------------------
(* The index of an enrollment.                                              *)

Before == {"auth", "lookup", "trylock", "locked"}

(* The strengthening: until its session begins, an enrollment has chosen
   nothing. *)
NotYetShown ==
  \A r \in Reqs : at[r] = "new" \/ (at[r] \in Before /\ Kind(r) = "Enroll") => ~ shown[r]

IndexFree == NotYetShown /\ ChosenIndexStaysFree

(* The row an enrollment is about to store at an index the service chose. *)
Storing(r) ==
  at[r] = "running" /\ Kind(r) = "Enroll" /\ shown[r] /\ ~ effect[r]

(* A thread that goes on, or stays, without beginning a session. *)
LEMMA NobodyNewStores ==
  ASSUME IndexFree, rows' \subseteq rows, shown' = shown,
         NEW r \in Reqs, at'[r] # "new",
         at'[r] \notin Before \/ (at[r] \in Before /\ call'[r] = call[r]),
         Storing(r)' => Storing(r) /\ Row(r)' = Row(r),
         \A q \in Reqs \ {r} :
            /\ at'[q] = at[q] /\ call'[q] = call[q]
            /\ effect'[q] = effect[q] /\ Row(q)' = Row(q)
  PROVE  IndexFree'
<1>1. NotYetShown'
  BY DEF IndexFree, NotYetShown, Kind
<1>2. \A q \in Reqs : Storing(q)' => Storing(q) /\ Row(q)' = Row(q)
  BY DEF Storing, Kind
<1>3. ChosenIndexStaysFree'
  BY <1>2 DEF IndexFree, ChosenIndexStaysFree, Storing
<1> QED
  BY <1>1, <1>3 DEF IndexFree

(* Every step keeps a chosen index free: another enrollment for the device
   would need the mutex, and every other step only erases rows. *)
LEMMA NextIndexFree ==
  Typed /\ HolderInSession /\ IndexFree /\ [Next]_vars => IndexFree'
<1> SUFFICES ASSUME Typed, HolderInSession, IndexFree, [Next]_vars PROVE IndexFree'
  OBVIOUS
<1> USE DEF history, request
<1>1. ASSUME NEW r \in Reqs, NEW c \in Calls, Submit(r, c) PROVE IndexFree'
  <2>1. /\ at'[r] \in {"auth", "lookup"} /\ call'[r] = c /\ slot'[r] = c.idx
        /\ \A q \in Reqs \ {r} : at'[q] = at[q] /\ call'[q] = call[q] /\ slot'[q] = slot[q]
    BY <1>1 DEF Submit, Goes, Typed, TypeOK
  <2>2. rows' = rows /\ effect' = effect /\ pos' = pos /\ shown' = shown /\ at[r] = "new"
    BY <1>1 DEF Submit, Goes
  <2>3. NotYetShown'
    BY <2>1, <2>2 DEF IndexFree, NotYetShown, Kind
  <2>4. \A q \in Reqs : Storing(q)' => Storing(q) /\ Row(q)' = Row(q)
    BY <2>1, <2>2 DEF Storing, Kind, Row, Dev, CleansAll
  <2>5. ChosenIndexStaysFree'
    BY <2>2, <2>4 DEF IndexFree, ChosenIndexStaysFree, Storing
  <2> QED
    BY <2>3, <2>5 DEF IndexFree
<1>2. ASSUME NEW r \in Reqs, Authorize(r) PROVE IndexFree'
  <2>1. /\ at[r] = "auth" /\ at'[r] \in {"lookup", "done"}
        /\ \A q \in Reqs \ {r} : at'[q] = at[q]
    BY <1>2 DEF Authorize, Goes, Typed, TypeOK
  <2> QED
    BY <1>2, <2>1, NobodyNewStores DEF Authorize, Before, Storing, Row, Dev, CleansAll
<1>3. ASSUME NEW r \in Reqs, Lookup(r) PROVE IndexFree'
  <2>1. CASE Dev(r) \in devList
    <3>1. /\ at[r] = "lookup" /\ at'[r] = "trylock"
          /\ \A q \in Reqs \ {r} : at'[q] = at[q]
      BY <1>3, <2>1 DEF Lookup, Goes, Typed, TypeOK
    <3> QED
      BY <1>3, <2>1, <3>1, NobodyNewStores DEF Lookup, Before, Storing, Row, Dev, CleansAll
  <2>2. CASE Dev(r) \notin devList
    <3>1. PICK code \in 0 .. 5 : Answer(r, "lookup", code)
      BY <1>3, <2>2 DEF Lookup, Refused, RetOpsSuccess, RetNoSuchDevice
    <3>2. /\ at[r] = "lookup" /\ at'[r] \in {"lookup", "done"}
          /\ \A q \in Reqs \ {r} : at'[q] = at[q] /\ pos'[q] = pos[q]
      BY <1>3, <3>1, AnswerType DEF Lookup
    <3> QED
      BY <1>3, <3>2, NobodyNewStores DEF Lookup, Before, Storing, Row, Dev, CleansAll
  <2> QED
    BY <2>1, <2>2
<1>4. ASSUME NEW r \in Reqs, TryLock(r) PROVE IndexFree'
  <2>1. at[r] = "trylock" /\ \A q \in Reqs \ {r} : effect'[q] = effect[q]
    BY <1>4 DEF TryLock, Typed, TypeOK
  <2>2. CASE mutex[Dev(r)] = NoReq
    <3>1. at'[r] = "locked" /\ \A q \in Reqs \ {r} : at'[q] = at[q]
      BY <1>4, <2>2 DEF TryLock, Goes, Typed, TypeOK
    <3> QED
      BY <1>4, <2>1, <2>2, <3>1, NobodyNewStores
      DEF TryLock, Before, Storing, Row, Dev, CleansAll
  <2>3. CASE mutex[Dev(r)] # NoReq
    <3>1. PICK code \in 0 .. 5 : Answer(r, "trylock", code)
      BY <1>4, <2>3 DEF TryLock, Refused, RetOpsSuccess, RetDeviceBusy
    <3>2. /\ at'[r] \in {"lookup", "done"}
          /\ \A q \in Reqs \ {r} : at'[q] = at[q] /\ pos'[q] = pos[q]
      BY <1>4, <3>1, AnswerType DEF AtDevice
    <3> QED
      BY <1>4, <2>1, <3>2, NobodyNewStores DEF TryLock, Before, Storing, Row, Dev, CleansAll
  <2> QED
    BY <2>2, <2>3
<1>5. ASSUME NEW r \in Reqs, Begin(r) PROVE IndexFree'
  <2>1. /\ at[r] = "locked" /\ at'[r] = "running" /\ rows' = rows /\ effect' = effect
        /\ \A q \in Reqs : call'[q] = call[q] /\ Dev(q)' = Dev(q)
        /\ \A q \in Reqs \ {r} : at'[q] = at[q] /\ slot'[q] = slot[q]
    BY <1>5 DEF Begin, Goes, Typed, TypeOK, Dev, CleansAll
  <2>5. \A q \in Reqs \ {r} : shown'[q] = shown[q]
    BY <1>5, Zenon DEF Begin, Typed, TypeOK
  <2>2. NotYetShown'
    BY <2>1, <2>5 DEF IndexFree, NotYetShown, Kind, Before
  <2>3. ASSUME Storing(r)' PROVE Row(r)' \notin rows
    <3>1. ~ shown[r] /\ shown'[r]
      BY <2>1, <2>3 DEF Storing, Kind, IndexFree, NotYetShown, Before
    <3>2. slot'[r] = EmptyIndex(Dev(r), call[r].uid)
      BY <1>5, <3>1, Zenon DEF Begin, Typed, TypeOK
    <3>3. slot'[r] \notin Taken(Dev(r), call[r].uid)
      BY <3>2, EmptyIndexFree DEF Typed, TypeOK
    <3>4. Row(r)' = [drv |-> Dev(r), uid |-> call[r].uid, idx |-> slot'[r]]
      BY <2>1 DEF Row
    <3> QED
      BY <3>3, <3>4 DEF Taken
  <2>4. ASSUME NEW q \in Reqs \ {r}, Storing(q)' PROVE Row(q)' \notin rows
    BY <2>1, <2>4, <2>5 DEF Storing, Kind, Row, IndexFree, ChosenIndexStaysFree
  <2>6. ChosenIndexStaysFree'
    BY <2>1, <2>3, <2>4 DEF ChosenIndexStaysFree, Storing
  <2> QED
    BY <2>2, <2>6 DEF IndexFree
<1>6. ASSUME NEW r \in Reqs, Opened(r) \/ Erase(r) PROVE IndexFree'
  <2>1. rows' \subseteq rows /\ UNCHANGED <<at, call, pos, slot, shown>>
    BY <1>6 DEF Opened, Erase
  <2>2. \A q \in Reqs : effect'[q] = effect[q] \/ effect'[q]
    BY <1>6 DEF Opened, Erase, Typed, TypeOK
  <2>3. NotYetShown'
    BY <2>1 DEF IndexFree, NotYetShown, Kind
  <2>4. ChosenIndexStaysFree'
    BY <2>1, <2>2 DEF IndexFree, ChosenIndexStaysFree, Kind, Row, Dev, CleansAll
  <2> QED
    BY <2>3, <2>4 DEF IndexFree
<1>7. ASSUME NEW r \in Reqs, Store(r) PROVE IndexFree'
  <2>1. /\ at[r] = "running" /\ rows' \subseteq rows \cup {Row(r)} /\ effect'[r]
        /\ UNCHANGED <<at, call, pos, slot, shown>>
        /\ \A q \in Reqs \ {r} : effect'[q] = effect[q]
    BY <1>7 DEF Store, Typed, TypeOK
  <2>2. NotYetShown'
    BY <2>1 DEF IndexFree, NotYetShown, Kind
  <2>3. ASSUME NEW q \in Reqs, Storing(q)' PROVE Row(q)' \notin rows'
    <3>1. q # r /\ Storing(q) /\ Row(q)' = Row(q)
      BY <2>1, <2>3 DEF Storing, Kind, Row, Dev, CleansAll
    <3>2. Dev(q) # Dev(r)
      BY <2>1, <3>1, HoldersExclude DEF MutualExclusion, Storing, Sections
    <3>3. Row(q) # Row(r)
      BY <3>2 DEF Row
    <3> QED
      BY <2>1, <3>1, <3>3 DEF IndexFree, ChosenIndexStaysFree, Storing
  <2>4. ChosenIndexStaysFree'
    BY <2>3 DEF ChosenIndexStaysFree, Storing
  <2> QED
    BY <2>2, <2>4 DEF IndexFree
<1>8. ASSUME NEW r \in Reqs, Fetch(r) \/ End(r) \/ Unlock(r) PROVE IndexFree'
  <2>1. /\ at'[r] \in {"matching", "ended", "unlocked"} /\ rows' = rows
        /\ \A q \in Reqs \ {r} : at'[q] = at[q] /\ effect'[q] = effect[q]
    BY <1>8 DEF Fetch, End, Unlock, Goes, Typed, TypeOK
  <2> QED
    BY <1>8, <2>1, NobodyNewStores
    DEF Fetch, End, Unlock, Before, Storing, Row, Dev, CleansAll
<1>9. ASSUME NEW r \in Reqs, ReadResult(r) PROVE IndexFree'
  <2>1. Dev(r) \in Drivers
    BY <1>9, DevType DEF ReadResult, AtDevice
  <2>2. PICK code \in 0 .. 5 : Answer(r, "unlocked", code)
    BY <1>9, <2>1 DEF ReadResult, Reply, RetOpsSuccess, RetOpsNoMatch, RetOpsError
  <2>3. /\ at'[r] \in {"lookup", "done"} /\ (Kind(r) = "Enroll" => at'[r] = "done")
        /\ \A q \in Reqs \ {r} : at'[q] = at[q] /\ pos'[q] = pos[q]
    <3>1. Kind(r) = "Enroll" => ~ CleansAll(r)
      BY ServiceAssumption DEF Typed, TypeOK, Kind, CleansAll, Requests
    <3> QED
      BY <2>2, <3>1, AnswerType DEF AtDevice, Answer, Goes, Typed, TypeOK
  <2>4. UNCHANGED <<call, slot, rows, effect, shown>>
    BY <1>9 DEF ReadResult
  <2>5. NotYetShown'
    BY <2>3, <2>4 DEF IndexFree, NotYetShown, Kind, Before
  <2>6. \A q \in Reqs : Storing(q)' => Storing(q) /\ Row(q)' = Row(q)
    BY <2>3, <2>4 DEF Storing, Kind, Row, Dev, CleansAll
  <2>7. ChosenIndexStaysFree'
    BY <2>4, <2>6 DEF IndexFree, ChosenIndexStaysFree, Storing
  <2> QED
    BY <2>5, <2>7 DEF IndexFree
<1>10. ASSUME NEW r \in Reqs, SystemClean(r) PROVE IndexFree'
  <2>1. /\ at'[r] = "done" /\ \A q \in Reqs \ {r} : at'[q] = at[q]
        /\ rows' \subseteq rows
    BY <1>10 DEF SystemClean, Goes, Typed, TypeOK
  <2> QED
    BY <1>10, <2>1, NobodyNewStores DEF SystemClean, Before, Storing, Row, Dev, CleansAll
<1>11. CASE Hotplug
  BY <1>11 DEF Hotplug, IndexFree, NotYetShown, ChosenIndexStaysFree, Kind, Row, Dev, CleansAll
<1>12. ASSUME NEW r \in Reqs, Crash(r) PROVE IndexFree'
  BY <1>12 DEF Crash, Each, IndexFree, NotYetShown, ChosenIndexStaysFree, Before
<1>13. CASE UNCHANGED vars
  BY <1>13 DEF vars, IndexFree, NotYetShown, ChosenIndexStaysFree, Kind, Row, Dev, CleansAll
<1> QED
  BY <1>1, <1>2, <1>3, <1>4, <1>5, <1>6, <1>7, <1>8, <1>9, <1>10, <1>11, <1>12, <1>13
  DEF Next, Thread, Device

(* An index the service chose, from a list that showed it to be free, is still
   free when the feature is stored: the mutex is held from the choice to the end
   of the session, and a clean that holds none only makes more indices free. *)
THEOREM ChosenIndexFree == Spec => []ChosenIndexStaysFree
<1>1. Init => IndexFree
  BY DEF Init, IndexFree, NotYetShown, ChosenIndexStaysFree, Each, Before
<1>2. IndexFree => ChosenIndexStaysFree
  BY DEF IndexFree
<1>3. Spec => [](Typed /\ HolderInSession)
  BY InitTyped, NextTyped, HolderCorrect, PTL DEF Spec
<1> QED
  BY <1>1, <1>2, <1>3, NextIndexFree, PTL DEF Spec

-----------------------------------------------------------------------------
(* What a clean has erased.                                                 *)

InSession == {"running", "matching", "ended", "unlocked"}

(* The strengthening, for a request to clean: what it must erase is what it
   covers; a session that has taken effect has erased that of a single driver,
   and nothing but a new feature, which is not to be erased, brings a row back;
   a session that has not does not end with a success. *)
CleanOf(r) ==
  Kind(r) = "Clean" =>
    /\ before[r] \subseteq Covered(call[r])
    /\ at[r] = "locked" => ~ effect[r]
    /\ ~ CleansAll(r) /\ at[r] \in InSession /\ effect[r] => before[r] \cap rows = {}
    /\ at[r] \in Looking /\ ~ effect[r] => Detail(outcome[r]) # Success
    /\ /\ at[r] = "done" /\ ret[r] = RetOpsSuccess
       /\ CleansAll(r) \/ ~ overtaken[r]
       => before[r] \cap rows = {}

CleanKept == \A r \in Reqs : CleanOf(r)

(* The outcomes of a clean that did nothing are no successes. *)
LEMMA VainCleanFails ==
  ASSUME NEW code \in Outcomes("Clean", FALSE)
  PROVE  Detail(code) # Success
<1>1. code \in {Code("Clean", Fail), Code("Close", Fail), Code("Open", Fail)}
  BY DEF Outcomes, VainOutcomes
<1>2. code \in {701, 1001, 101}
  BY <1>1 DEF Code, OpsType, Fail
<1> QED
  BY <1>2 DEF Detail, Success

(* A step of one thread that brings back no row another must erase. *)
LEMMA OthersKeepClean ==
  ASSUME CleanKept, NEW r \in Reqs, CleanOf(r)',
         \A q \in Reqs \ {r} :
           /\ before'[q] \subseteq before[q] /\ before'[q] \cap rows' \subseteq before[q] \cap rows
           /\ at'[q] = at[q] /\ call'[q] = call[q] /\ ret'[q] = ret[q]
           /\ effect'[q] = effect[q] /\ outcome'[q] = outcome[q]
           /\ overtaken[q] => overtaken'[q]
  PROVE  CleanKept'
<1> SUFFICES ASSUME NEW q \in Reqs \ {r} PROVE CleanOf(q)'
  BY DEF CleanKept
<1>1. CleanOf(q)
  BY DEF CleanKept
<1> QED
  BY <1>1 DEF CleanOf, Kind, CleansAll, Covered

(* An answer to a clean of all drivers does not end it; the answer to a clean
   of one does. *)
LEMMA AnswerTo ==
  ASSUME Typed, NEW r \in Reqs, NEW from, NEW code \in 0 .. 5,
         Answer(r, from, code), from \in AtDevice \/ MoreDrivers(r)
  PROVE  /\ \A q \in Reqs \ {r} : at'[q] = at[q] /\ ret'[q] = ret[q]
         /\ CleansAll(r) => at'[r] = "lookup"
         /\ ~ CleansAll(r) => at'[r] = "done" /\ ret'[r] = code
BY DEF Answer, Goes, Typed, TypeOK

(* Every step keeps what is said of the cleans. *)
LEMMA NextCleanKept == Typed /\ ResultKept /\ CleanKept /\ [Next]_vars => CleanKept'
<1> SUFFICES ASSUME Typed, ResultKept, CleanKept, [Next]_vars PROVE CleanKept'
  OBVIOUS
<1> USE DEF history, request
<1>0. \A r \in Reqs : CleanOf(r)
  BY DEF CleanKept
<1>1. ASSUME NEW r \in Reqs, NEW c \in Calls, Submit(r, c) PROVE CleanKept'
  <2>1. /\ at'[r] \in {"auth", "lookup"} /\ call'[r] = c
        /\ c.kind = "Clean" => before'[r] \subseteq Covered(c)
        /\ \A q \in Reqs \ {r} : at'[q] = at[q] /\ call'[q] = call[q] /\ before'[q] = before[q]
    BY <1>1 DEF Submit, Goes, Typed, TypeOK
  <2>2. CleanOf(r)'
    BY <2>1 DEF CleanOf, Kind, InSession, Looking, Covered
  <2> QED
    BY <1>1, <2>1, <2>2, OthersKeepClean DEF Submit
<1>2. ASSUME NEW r \in Reqs, Authorize(r) PROVE CleanKept'
  <2> RetPermissionDenied # RetOpsSuccess /\ at \in [Reqs -> Places] /\ ret \in [Reqs -> 0 .. 5]
    BY DEF RetPermissionDenied, RetOpsSuccess, Typed, TypeOK
  <2>1. /\ at'[r] = "lookup" \/ (at'[r] = "done" /\ ret'[r] = RetPermissionDenied)
        /\ \A q \in Reqs \ {r} : at'[q] = at[q] /\ ret'[q] = ret[q]
    <3>1. CASE Goes(r, "auth", "lookup") /\ UNCHANGED ret
      BY <3>1 DEF Goes
    <3>2. CASE Goes(r, "auth", "done") /\ ret' = [ret EXCEPT ![r] = RetPermissionDenied]
      BY <3>2 DEF Goes
    <3> QED
      BY <1>2, <3>1, <3>2 DEF Authorize
  <2>2. CleanOf(r)'
    BY <1>0, <1>2, <2>1 DEF Authorize, CleanOf, Kind, Covered, CleansAll, InSession, Looking
  <2> QED
    BY <1>2, <2>1, <2>2, OthersKeepClean DEF Authorize
<1>3. ASSUME NEW r \in Reqs, Lookup(r) PROVE CleanKept'
  <2>1. CASE Dev(r) \in devList
    <3>1. at'[r] = "trylock" /\ \A q \in Reqs \ {r} : at'[q] = at[q]
      BY <1>3, <2>1 DEF Lookup, Goes, Typed, TypeOK
    <3>2. CleanOf(r)'
      BY <1>0, <1>3, <3>1 DEF Lookup, CleanOf, Kind, Covered, InSession, Looking
    <3> QED
      BY <1>3, <2>1, <3>1, <3>2, OthersKeepClean DEF Lookup
  <2>2. CASE Dev(r) \notin devList
    <3>1. PICK code \in 0 .. 5 :
            Answer(r, "lookup", code) /\ (Kind(r) = "Clean" => code # RetOpsSuccess)
      BY <1>3, <2>2 DEF Lookup, Refused, RetOpsSuccess, RetNoSuchDevice
    <3>2. "lookup" \in AtDevice \/ MoreDrivers(r)
      BY <1>3 DEF Lookup
    <3>3. /\ \A q \in Reqs \ {r} : at'[q] = at[q] /\ ret'[q] = ret[q]
          /\ CleansAll(r) => at'[r] = "lookup"
          /\ ~ CleansAll(r) => at'[r] = "done" /\ ret'[r] = code
      BY <3>1, <3>2, AnswerTo
    <3>4. CleanOf(r)'
      BY <1>0, <1>3, <2>2, <3>1, <3>3 DEF Lookup, CleanOf, Kind, Covered, CleansAll, InSession,
         Looking
    <3> QED
      BY <1>3, <2>2, <3>3, <3>4, OthersKeepClean DEF Lookup
  <2> QED
    BY <2>1, <2>2
<1>4. ASSUME NEW r \in Reqs, TryLock(r) PROVE CleanKept'
  <2>1. CASE mutex[Dev(r)] = NoReq
    <3>1. /\ at'[r] = "locked" /\ ~ effect'[r]
          /\ \A q \in Reqs \ {r} : /\ at'[q] = at[q] /\ effect'[q] = effect[q]
                                   /\ overtaken'[q] = overtaken[q]
      BY <1>4, <2>1 DEF TryLock, Goes, Typed, TypeOK
    <3>2. CleanOf(r)'
      BY <1>0, <1>4, <3>1 DEF TryLock, CleanOf, Kind, Covered, InSession, Looking
    <3> QED
      BY <1>4, <2>1, <3>1, <3>2, OthersKeepClean DEF TryLock
  <2>2. CASE mutex[Dev(r)] # NoReq
    <3>1. PICK code \in 0 .. 5 :
            Answer(r, "trylock", code) /\ (Kind(r) = "Clean" => code # RetOpsSuccess)
      BY <1>4, <2>2 DEF TryLock, Refused, RetOpsSuccess, RetDeviceBusy
    <3>2. /\ \A q \in Reqs \ {r} : at'[q] = at[q] /\ ret'[q] = ret[q]
          /\ CleansAll(r) => at'[r] = "lookup"
          /\ ~ CleansAll(r) => at'[r] = "done" /\ ret'[r] = code
      BY <3>1, AnswerTo DEF AtDevice
    <3>3. CleanOf(r)'
      BY <1>0, <1>4, <2>2, <3>1, <3>2 DEF TryLock, CleanOf, Kind, Covered, CleansAll, InSession,
         Looking
    <3> QED
      BY <1>4, <2>2, <3>2, <3>3, OthersKeepClean DEF TryLock
  <2> QED
    BY <2>1, <2>2
<1>5. ASSUME NEW r \in Reqs, Begin(r) PROVE CleanKept'
  <2>1. /\ at[r] = "locked" /\ at'[r] = "running"
        /\ \A q \in Reqs \ {r} : at'[q] = at[q]
    BY <1>5 DEF Begin, Goes, Typed, TypeOK
  <2>2. CleanOf(r)'
    BY <1>0, <1>5, <2>1 DEF Begin, CleanOf, Kind, Covered, InSession, Looking
  <2> QED
    BY <1>5, <2>1, <2>2, OthersKeepClean DEF Begin
<1>6. ASSUME NEW r \in Reqs, Opened(r) PROVE CleanKept'
  <2>1. \A q \in Reqs : overtaken[q] => overtaken'[q]
    BY <1>6 DEF Opened, WriteResult
  <2>2. CleanOf(r)'
    BY <1>0, <1>6, <2>1 DEF Opened, CleanOf, Kind, Covered, CleansAll, InSession, Looking
  <2> QED
    BY <1>6, <2>1, <2>2, OthersKeepClean DEF Opened
<1>7. ASSUME NEW r \in Reqs, Store(r) PROVE CleanKept'
  <2>1. \A q \in Reqs : /\ before'[q] \subseteq before[q]
                       /\ before'[q] \cap rows' \subseteq before[q] \cap rows
    BY <1>7 DEF Store, Typed, TypeOK
  <2>2. \A q \in Reqs \ {r} : effect'[q] = effect[q]
    BY <1>7 DEF Store, Typed, TypeOK
  <2>3. CleanOf(r)'
    BY <1>7 DEF Store, CleanOf, Kind
  <2> QED
    BY <1>7, <2>1, <2>2, <2>3, OthersKeepClean DEF Store
<1>8. ASSUME NEW r \in Reqs, Erase(r) PROVE CleanKept'
  <2>1. /\ rows' \subseteq rows /\ at[r] = "running" /\ at' = at /\ before' = before
        /\ \A q \in Reqs \ {r} : effect'[q] = effect[q]
    BY <1>8 DEF Erase, Typed, TypeOK
  <2>2. ASSUME ~ CleansAll(r), Kind(r) = "Clean" PROVE before[r] \cap rows' = {}
    <3>1. Dev(r) = call[r].drv
      BY <2>2 DEF Dev
    <3>2. Covered([call[r] EXCEPT !.drv = Dev(r)]) = Covered(call[r])
      BY <3>1, ServiceAssumption DEF Covered, Typed, TypeOK, Requests
    <3> QED
      BY <1>0, <1>8, <2>2, <3>2 DEF Erase, CleanOf
  <2>3. CleanOf(r)'
    BY <1>0, <1>8, <2>1, <2>2 DEF Erase, CleanOf, Kind, Covered, CleansAll, InSession, Looking
  <2> QED
    BY <1>8, <2>1, <2>3, OthersKeepClean DEF Erase
<1>9. ASSUME NEW r \in Reqs, Fetch(r) PROVE CleanKept'
  <2>1. /\ Kind(r) # "Clean" /\ call' = call
        /\ \A q \in Reqs \ {r} : at'[q] = at[q]
    BY <1>9 DEF Fetch, Goes, Typed, TypeOK
  <2>2. CleanOf(r)'
    BY <2>1 DEF CleanOf, Kind
  <2> QED
    BY <1>9, <2>1, <2>2, OthersKeepClean DEF Fetch
<1>10. ASSUME NEW r \in Reqs, End(r) PROVE CleanKept'
  <2>1. PICK e \in BOOLEAN :
          /\ Kind(r) \in {"Enroll", "Clean"} => e = effect[r]
          /\ effect' = [effect EXCEPT ![r] = e]
          /\ \E code \in Outcomes(Kind(r), e) :
               WriteResult(Dev(r), code) /\ outcome' = [outcome EXCEPT ![r] = code]
    BY <1>10 DEF End
  <2>2. PICK code \in Outcomes(Kind(r), e) :
          WriteResult(Dev(r), code) /\ outcome' = [outcome EXCEPT ![r] = code]
    BY <2>1
  <2>3. /\ at[r] \in {"running", "matching"} /\ at'[r] = "ended"
        /\ effect'[r] = e /\ outcome'[r] = code
        /\ \A q \in Reqs \ {r} : /\ at'[q] = at[q] /\ effect'[q] = effect[q]
                                 /\ outcome'[q] = outcome[q]
        /\ \A q \in Reqs : overtaken[q] => overtaken'[q]
    BY <1>10, <2>1, <2>2 DEF End, WriteResult, Typed, TypeOK
  <2>4. Kind(r) = "Clean" /\ ~ e => Detail(code) # Success
    BY <2>2, VainCleanFails
  <2>5. CleanOf(r)'
    BY <1>0, <1>10, <2>1, <2>3, <2>4 DEF End, CleanOf, Kind, Covered, CleansAll, InSession,
       Looking
  <2> QED
    BY <1>10, <2>3, <2>5, OthersKeepClean DEF End
<1>11. ASSUME NEW r \in Reqs, Unlock(r) PROVE CleanKept'
  <2>1. /\ at[r] = "ended" /\ at'[r] = "unlocked"
        /\ \A q \in Reqs \ {r} : at'[q] = at[q]
    BY <1>11 DEF Unlock, Goes, Typed, TypeOK
  <2>2. CleanOf(r)'
    BY <1>0, <1>11, <2>1 DEF Unlock, CleanOf, Kind, Covered, CleansAll, InSession, Looking
  <2> QED
    BY <1>11, <2>1, <2>2, OthersKeepClean DEF Unlock
<1>12. ASSUME NEW r \in Reqs, ReadResult(r) PROVE CleanKept'
  <2>1. Dev(r) \in Drivers /\ at[r] = "unlocked"
    BY <1>12, DevType DEF ReadResult, AtDevice
  <2>2. PICK code \in 0 .. 5 : Answer(r, "unlocked", code) /\ code = Reply(Kind(r), result[Dev(r)])
    BY <1>12, <2>1 DEF ReadResult, Reply, RetOpsSuccess, RetOpsNoMatch, RetOpsError
  <2>3. /\ \A q \in Reqs \ {r} : at'[q] = at[q] /\ ret'[q] = ret[q]
        /\ CleansAll(r) => at'[r] = "lookup"
        /\ ~ CleansAll(r) => at'[r] = "done" /\ ret'[r] = code
    BY <2>2, AnswerTo DEF AtDevice
  <2>4. ASSUME Kind(r) = "Clean", code = RetOpsSuccess, ~ overtaken[r] PROVE effect[r]
    <3>1. Detail(outcome[r]) = Success
      BY <2>1, <2>2, <2>4 DEF Reply, ResultKept, RetOpsSuccess, RetOpsError
    <3> QED
      BY <1>0, <2>1, <2>4, <3>1 DEF CleanOf, Looking
  <2>5. CleanOf(r)'
    BY <1>0, <1>12, <2>1, <2>3, <2>4 DEF ReadResult, CleanOf, Kind, Covered, CleansAll, InSession,
       Looking
  <2> QED
    BY <1>12, <2>3, <2>5, OthersKeepClean DEF ReadResult
<1>13. ASSUME NEW r \in Reqs, SystemClean(r) PROVE CleanKept'
  <2>1. /\ at'[r] = "done" /\ rows' \subseteq rows
        /\ \A q \in Reqs \ {r} : at'[q] = at[q] /\ ret'[q] = ret[q]
        /\ rows' = rows \ Covered(call[r]) \/ ret'[r] = RetOpsError
    BY <1>13 DEF SystemClean, Goes, Typed, TypeOK
  <2>2. CleanOf(r)'
    BY <1>0, <1>13, <2>1 DEF SystemClean, CleanOf, Kind, Covered, CleansAll, InSession, Looking,
       RetOpsError, RetOpsSuccess
  <2> QED
    BY <1>13, <2>1, <2>2, OthersKeepClean DEF SystemClean
<1>14. CASE Hotplug
  BY <1>14 DEF Hotplug, CleanKept, CleanOf, Kind, Covered, CleansAll
<1>15. ASSUME NEW r \in Reqs, Crash(r) PROVE CleanKept'
  BY <1>15 DEF Crash, Each, CleanKept, CleanOf, InSession, Looking
<1>16. CASE UNCHANGED vars
  BY <1>16 DEF vars, CleanKept, CleanOf, Kind, Covered, CleansAll
<1> QED
  BY <1>1, <1>2, <1>3, <1>4, <1>5, <1>6, <1>7, <1>8, <1>9, <1>10, <1>11, <1>12, <1>13, <1>14,
     <1>15, <1>16 DEF Next, Thread, Device

(* A clean answered with success has erased what it covered, whatever other
   requests do meanwhile, the unlocked clean of the whole table included. *)
THEOREM CleanMeansErased == Spec => []CleanErases
<1>1. Init => CleanKept
  BY DEF Init, CleanKept, CleanOf, Each, InSession, Looking
<1>2. CleanKept => CleanErases
  BY DEF CleanKept, CleanOf, CleanErases
<1>3. Spec => [](Typed /\ ResultKept)
  BY InitTyped, NextTyped, OwnResultRead, PTL DEF Spec
<1> QED
  BY <1>1, <1>2, <1>3, NextCleanKept, PTL DEF Spec
=============================================================================
