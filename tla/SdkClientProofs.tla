-------------------------- MODULE SdkClientProofs --------------------------
(***************************************************************************)
(* Proofs about SdkClient, for any number of calls and configurations.     *)
(***************************************************************************)
EXTENDS SdkClient, TLAPS

\* What a call finds that runs beside no other: it alone runs, so that the Once
\* is where its own steps have brought it.
OnItsOwn(c) ==
  /\ \A e \in Calls \ {c} : ~Running(e)
  /\ pc[c] # "asleep"
  /\ pc[c] \in {"check", "lock"} => ~done /\ ~locked /\ waiters = 0
  /\ pc[c] \in {"recheck", "create"} => ~done /\ locked /\ waiters = 0
  /\ pc[c] \in {"store", "unlock"} =>
       /\ locked /\ waiters = 0
       /\ failed[c] = (config[c] \in Unnamed)
       /\ ~failed[c] => globalClient = config[c]

AloneIsOnItsOwn == \A c \in Calls : alone[c] /\ Running(c) => OnItsOwn(c)

IInv == TypeOK /\ AloneIsOnItsOwn

LEMMA InitInv == Init => IInv
<1>1. ASSUME Init PROVE TypeOK
  <2>1. \A c \in Calls : pc[c] = "idle"
    BY <1>1 DEF Init
  <2>2. \A c \in Calls : ~Running(c)
    BY <2>1 DEF Running, Steps
  <2>3. /\ pc \in [Calls -> Steps \union {"idle", "returned"}]
        /\ config \in [Calls -> Configs \union {NoClient}]
        /\ failed \in [Calls -> BOOLEAN]
        /\ alone \in [Calls -> BOOLEAN]
    BY <1>1 DEF Init
  <2> QED BY <1>1, <2>2, <2>3 DEF Init, TypeOK
<1>2. Init => AloneIsOnItsOwn
  BY DEF Init, AloneIsOnItsOwn
<1> QED BY <1>1, <1>2 DEF IInv

\* A call keeps its configuration while it runs.
LEMMA ConfigKept ==
  ASSUME TypeOK, config' = config, \A c \in Calls : Running(c)' => Running(c)
  PROVE  (\A c \in Calls : Running(c) => config[c] # NoClient)'
  BY DEF TypeOK, Running

\* Type correctness, action by action.
LEMMA TypeStep == TypeOK /\ [Next]_vars => TypeOK'
<1> SUFFICES ASSUME TypeOK, [Next]_vars PROVE TypeOK'
  OBVIOUS
<1> USE DEF At, Goto, TypeOK, Running, Steps, once
<1>1. CASE \E c \in Calls : Call(c)
  <2>1. PICK c \in Calls : Call(c) BY <1>1
  <2>2. PICK k \in Configs : config' = [config EXCEPT ![c] = k]
    BY <2>1 DEF Call
  <2>3. k # NoClient
    BY ConfigsAssumption
  <2> QED BY <2>1, <2>2, <2>3 DEF Call
<1>2. CASE \E c \in Calls : Reset(c)
  <2>1. PICK c \in Calls : Reset(c) BY <1>2
  <2>2. pc' = [pc EXCEPT ![c] = "check"] /\ pc[c] = "reset"
    BY <2>1 DEF Reset
  <2>3. \A d \in Calls : Running(d)' => Running(d)
    BY <2>2
  <2>4. (\A d \in Calls : Running(d) => config[d] # NoClient)'
    BY <2>1, <2>3, ConfigKept DEF Reset
  <2> QED BY <2>1, <2>2, <2>4 DEF Reset, ResetOnce
<1>3. CASE \E c \in Calls : Check(c)
  BY <1>3 DEF Check
<1>4. CASE \E c \in Calls : Lock(c)
  <2>1. PICK c \in Calls : Lock(c) BY <1>4
  <2>2. pc[c] = "lock" /\ \E step \in {"asleep", "recheck"} : pc' = [pc EXCEPT ![c] = step]
    BY <2>1 DEF Lock
  <2>3. \A d \in Calls : Running(d)' => Running(d)
    BY <2>2
  <2>4. (\A d \in Calls : Running(d) => config[d] # NoClient)'
    BY <2>1, <2>3, ConfigKept DEF Lock
  <2>5. waiters' \in Nat /\ locked' \in BOOLEAN
    <3>1. waiters + 1 \in Nat
      OBVIOUS
    <3>2. CASE locked
      BY <2>1, <3>1, <3>2 DEF Lock
    <3>3. CASE ~locked
      BY <2>1, <3>3 DEF Lock
    <3> QED BY <3>2, <3>3
  <2> QED BY <2>1, <2>2, <2>4, <2>5 DEF Lock
<1>5. CASE \E c \in Calls : Recheck(c)
  BY <1>5 DEF Recheck
<1>6. CASE \E c \in Calls : Create(c)
  BY <1>6 DEF Create, Install
<1>7. CASE \E c \in Calls : Store(c)
  BY <1>7 DEF Store
<1>8. CASE \E c \in Calls : Unlock(c)
  <2>1. PICK c \in Calls : Unlock(c) BY <1>8
  <2>2. pc[c] = "unlock" /\ waiters' \in Nat /\ crashed' \in BOOLEAN
    BY <2>1 DEF Unlock, Wakes
  <2>3. \/ pc' = [pc EXCEPT ![c] = "returned"]
        \/ \E d \in Calls : pc[d] = "asleep"
                            /\ pc' = [pc EXCEPT ![c] = "returned", ![d] = "lock"]
    BY <2>1 DEF Unlock
  <2>4. pc' \in [Calls -> Steps \union {"idle", "returned"}]
    BY <2>3
  <2>5. \A d \in Calls : Running(d)' => Running(d)
    BY <2>2, <2>3
  <2>6. (\A d \in Calls : Running(d) => config[d] # NoClient)'
    BY <2>1, <2>5, ConfigKept DEF Unlock
  <2> QED BY <2>1, <2>2, <2>4, <2>6 DEF Unlock
<1>9. CASE UNCHANGED vars
  BY <1>9 DEF vars
<1> QED BY <1>1, <1>2, <1>3, <1>4, <1>5, <1>6, <1>7, <1>8, <1>9 DEF Next

\* A step of another call than d, which runs on its own, can only be its start,
\* after which d is no longer alone.
LEMMA OthersStart ==
  ASSUME IInv, NEW d \in Calls, alone[d], Running(d),
         NEW c \in Calls, c # d,
         \/ Call(c) \/ Reset(c) \/ Check(c) \/ Lock(c) \/ Recheck(c) \/ Create(c)
         \/ Store(c) \/ Unlock(c)
  PROVE  Call(c) /\ ~alone'[d] /\ pc'[d] = pc[d]
<1>1. ~Running(c)
  BY DEF IInv, AloneIsOnItsOwn, OnItsOwn
<1>2. Call(c)
  BY <1>1 DEF Reset, Check, Lock, Recheck, Create, Store, Unlock, At, Running, Steps
<1> QED BY <1>2 DEF Call, Goto, IInv, TypeOK

\* A step of a call on its own, and what it makes of the call.
LEMMA OwnStep ==
  ASSUME IInv, NEW c \in Calls, alone[c], Running(c),
         \/ Call(c) \/ Reset(c) \/ Check(c) \/ Lock(c) \/ Recheck(c) \/ Create(c)
         \/ Store(c) \/ Unlock(c)
  PROVE  /\ pc'[c] # "asleep"
         /\ Running(c)' => OnItsOwn(c)'
         /\ pc'[c] = "returned" =>
              /\ ~crashed'
              /\ failed[c] = (config[c] \in Unnamed)
              /\ ~failed[c] => globalClient' = config[c]
<1>0. OnItsOwn(c) /\ TypeOK
  BY DEF IInv, AloneIsOnItsOwn
<1>1. ~Call(c)
  BY DEF Call, At, Running, Steps
<1>2. CASE Reset(c)
  BY <1>0, <1>2 DEF Reset, ResetOnce, At, Goto, OnItsOwn, TypeOK, Running, Steps
<1>3. CASE Check(c)
  BY <1>0, <1>3 DEF Check, At, Goto, OnItsOwn, TypeOK, Running, Steps, once
<1>4. CASE Lock(c)
  BY <1>0, <1>4 DEF Lock, At, Goto, OnItsOwn, TypeOK, Running, Steps
<1>5. CASE Recheck(c)
  BY <1>0, <1>5 DEF Recheck, At, Goto, OnItsOwn, TypeOK, Running, Steps, once
<1>6. CASE Create(c)
  BY <1>0, <1>6 DEF Create, Install, At, Goto, OnItsOwn, TypeOK, Running, Steps, once
<1>7. CASE Store(c)
  BY <1>0, <1>7 DEF Store, At, Goto, OnItsOwn, TypeOK, Running, Steps
<1>8. CASE Unlock(c)
  <2>1. locked /\ ~Wakes
    BY <1>0, <1>8 DEF Unlock, At, OnItsOwn, Wakes
  <2>2. pc' = [pc EXCEPT ![c] = "returned"] /\ ~crashed' /\ globalClient' = globalClient
    BY <1>8, <2>1 DEF Unlock, Goto
  <2> QED BY <1>0, <1>8, <2>2 DEF Unlock, At, OnItsOwn, TypeOK, Running, Steps
<1> QED BY <1>1, <1>2, <1>3, <1>4, <1>5, <1>6, <1>7, <1>8

LEMMA AloneStep == IInv /\ [Next]_vars => AloneIsOnItsOwn'
<1> SUFFICES ASSUME IInv, [Next]_vars, NEW d \in Calls, alone'[d], Running(d)'
             PROVE  OnItsOwn(d)'
  BY DEF AloneIsOnItsOwn
<1>1. CASE UNCHANGED vars
  BY <1>1 DEF vars, once, IInv, AloneIsOnItsOwn, OnItsOwn, Running
<1>2. CASE Next
  <2>1. PICK c \in Calls :
          \/ Call(c) \/ Reset(c) \/ Check(c) \/ Lock(c) \/ Recheck(c) \/ Create(c)
          \/ Store(c) \/ Unlock(c)
    BY <1>2 DEF Next
  <2>2. CASE Running(d)
    <3>1. alone[d]
      BY <2>1, <2>2 DEF Call, Reset, Check, Lock, Recheck, Create, Store, Unlock, IInv, TypeOK,
                      At, Running, Steps
    <3>2. CASE c = d
      <4>1. Running(d)' => OnItsOwn(d)'
        BY <2>1, <2>2, <3>1, <3>2, OwnStep
      <4> QED BY <4>1
    <3>3. CASE c # d
      BY <2>1, <2>2, <3>1, <3>3, OthersStart
    <3> QED BY <3>2, <3>3
  <2>3. CASE ~Running(d)
    <3>1. Call(d)
      <4>1. CASE c # d
        BY <2>1, <2>3, <4>1
        DEF Call, Reset, Check, Lock, Recheck, Create, Store, Unlock, Goto, IInv, TypeOK,
            Running, Steps
      <4>2. CASE c = d
        BY <2>1, <2>3, <4>2
        DEF Reset, Check, Lock, Recheck, Create, Store, Unlock, At, Running, Steps
      <4> QED BY <4>1, <4>2
    <3>2. \A e \in Calls : ~Running(e)
      BY <3>1 DEF Call
    <3>3. \A e \in Calls \ {d} : pc'[e] = pc[e]
      BY <3>1 DEF Call, Goto, IInv, TypeOK
    <3>4. pc'[d] = "reset"
      BY <3>1 DEF Call, Goto, IInv, TypeOK
    <3> QED BY <3>2, <3>3, <3>4 DEF OnItsOwn, Running
  <2> QED BY <2>2, <2>3
<1> QED BY <1>1, <1>2

LEMMA Inductive == Spec => []IInv
<1>1. IInv /\ [Next]_vars => IInv'
  BY TypeStep, AloneStep DEF IInv
<1> QED BY <1>1, InitInv, PTL DEF Spec

\* Every reachable state has the types that TypeOK states.
THEOREM TypeCorrect == Spec => []TypeOK
<1>1. IInv => TypeOK
  BY DEF IInv
<1> QED BY <1>1, Inductive, PTL

\* A call that runs beside no other takes effect, for any number of calls and
\* whatever they have left behind.
THEOREM Effective == Spec => AloneTakesEffect
<1> DEFINE Effect(c) ==
      alone[c] =>
        /\ pc'[c] # "asleep"
        /\ Running(c) /\ pc'[c] = "returned" =>
             /\ ~crashed'
             /\ failed[c] = (config[c] \in Unnamed)
             /\ ~failed[c] => globalClient' = config[c]
<1>1. IInv /\ [Next]_vars => [\A c \in Calls : Effect(c)]_vars
  <2> SUFFICES ASSUME IInv, Next PROVE \A d \in Calls : Effect(d)
    BY DEF vars
  <2> SUFFICES ASSUME NEW d \in Calls, alone[d] PROVE Effect(d)
    OBVIOUS
  <2>1. PICK c \in Calls :
          \/ Call(c) \/ Reset(c) \/ Check(c) \/ Lock(c) \/ Recheck(c) \/ Create(c)
          \/ Store(c) \/ Unlock(c)
    BY DEF Next
  <2>2. CASE Running(d) /\ c = d
    BY <2>1, <2>2, OwnStep
  <2>3. CASE Running(d) /\ c # d
    <3>1. pc'[d] = pc[d]
      BY <2>1, <2>3, OthersStart
    <3>2. pc[d] # "asleep" /\ pc[d] # "returned"
      BY <2>3 DEF IInv, AloneIsOnItsOwn, OnItsOwn, Running, Steps
    <3> QED BY <3>1, <3>2
  <2>4. CASE ~Running(d)
    <3>1. pc'[d] # "asleep"
      BY <2>1, <2>4
      DEF Call, Reset, Check, Lock, Recheck, Create, Store, Unlock, At, Goto, IInv, TypeOK,
          Running, Steps
    <3> QED BY <2>4, <3>1
  <2> QED BY <2>2, <2>3, <2>4
<1> QED BY <1>1, Inductive, PTL DEF Spec, AloneTakesEffect
=============================================================================
