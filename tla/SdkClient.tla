----------------------------- MODULE SdkClient -----------------------------
(***************************************************************************)
(* The SDK's global client.  Init replaces the sync.Once that it then      *)
(* runs, without a lock, so that a call can take away the lock under       *)
(* another.  The steps are those of Once.Do and of the mutex in it; the    *)
(* replacement clears flag, lock and count of waiters in one store.        *)
(***************************************************************************)
EXTENDS Integers

CONSTANTS
  Calls,       \* the calls of Init
  Configs,     \* the configurations they are made with
  Unnamed,     \* those without a ServiceName
  NoClient     \* nil

ASSUME ConfigsAssumption == Unnamed \subseteq Configs /\ NoClient \notin Configs

VARIABLES
  globalClient,  \* the configuration of the global client, or NoClient
  done,          \* the flag of the Once
  locked,        \* its mutex
  waiters,       \* the number of sleepers that the mutex knows of
  pc,            \* where each call is
  config,        \* what it was made with
  failed,        \* it returns an error
  alone,         \* history: it has run beside no other call
  crashed        \* fatal error: sync: unlock of unlocked mutex

once == <<done, locked, waiters>>
vars == <<globalClient, once, pc, config, failed, alone, crashed>>

Steps == {"reset", "check", "lock", "asleep", "recheck", "create", "store",
          "unlock"}
Running(c) == pc[c] \in Steps

TypeOK ==
  /\ globalClient \in Configs \union {NoClient}
  /\ done \in BOOLEAN /\ locked \in BOOLEAN /\ waiters \in Nat
  /\ pc \in [Calls -> Steps \union {"idle", "returned"}]
  /\ config \in [Calls -> Configs \union {NoClient}]
  /\ failed \in [Calls -> BOOLEAN]
  /\ alone \in [Calls -> BOOLEAN]
  /\ crashed \in BOOLEAN
  /\ \A c \in Calls : Running(c) => config[c] # NoClient

Init ==
  /\ globalClient = NoClient
  /\ done = FALSE /\ locked = FALSE /\ waiters = 0
  /\ pc = [c \in Calls |-> "idle"]
  /\ config = [c \in Calls |-> NoClient]
  /\ failed = [c \in Calls |-> FALSE]
  /\ alone = [c \in Calls |-> FALSE]
  /\ crashed = FALSE

At(c, step)  == ~crashed /\ pc[c] = step
Goto(c, step) == pc' = [pc EXCEPT ![c] = step]

Call(c) ==
  /\ At(c, "idle")
  /\ \E k \in Configs : config' = [config EXCEPT ![c] = k]
  /\ Goto(c, "reset")
  /\ alone' = [d \in Calls |->
       IF d = c THEN \A e \in Calls : ~Running(e)
                ELSE alone[d] /\ ~Running(d)]
  /\ UNCHANGED <<globalClient, once, failed, crashed>>

\* Variant with a fault: the Once is kept.
ResetNot(c) == UNCHANGED once

ResetOnce(c) == done' = FALSE /\ locked' = FALSE /\ waiters' = 0

Reset(c) ==
  /\ At(c, "reset")
  /\ ResetOnce(c)
  /\ Goto(c, "check")
  /\ UNCHANGED <<globalClient, config, failed, alone, crashed>>

\* Do looks at the flag without the lock.
Check(c) ==
  /\ At(c, "check")
  /\ Goto(c, IF done THEN "returned" ELSE "lock")
  /\ UNCHANGED <<globalClient, once, config, failed, alone, crashed>>

\* A call that finds the mutex locked is counted and sleeps until an Unlock
\* wakes it.
Lock(c) ==
  /\ At(c, "lock")
  /\ IF locked THEN /\ Goto(c, "asleep")
                    /\ waiters' = waiters + 1
                    /\ UNCHANGED locked
               ELSE /\ Goto(c, "recheck")
                    /\ locked' = TRUE
                    /\ UNCHANGED waiters
  /\ UNCHANGED <<globalClient, done, config, failed, alone, crashed>>

Recheck(c) ==
  /\ At(c, "recheck")
  /\ Goto(c, IF done THEN "unlock" ELSE "create")
  /\ UNCHANGED <<globalClient, once, config, failed, alone, crashed>>

Install(k) == IF k \in Unnamed THEN globalClient ELSE k

\* newClient, and the assignment where it succeeds.
Create(c) ==
  /\ At(c, "create")
  /\ failed' = [failed EXCEPT ![c] = config[c] \in Unnamed]
  /\ globalClient' = Install(config[c])
  /\ Goto(c, "store")
  /\ UNCHANGED <<once, config, alone, crashed>>

Store(c) ==
  /\ At(c, "store")
  /\ done' = TRUE
  /\ Goto(c, "unlock")
  /\ UNCHANGED <<globalClient, locked, waiters, config, failed, alone, crashed>>

\* Variant with a fault: a sleeper is woken whether it is counted or not.
WakesUncounted == locked

Wakes == locked /\ waiters > 0

\* Unlock of an unlocked mutex ends the process.  Else it wakes a sleeper, if
\* the mutex knows of any.
Unlock(c) ==
  /\ At(c, "unlock")
  /\ crashed' = ~locked
  /\ locked' = FALSE
  /\ \/ /\ ~Wakes
        /\ Goto(c, "returned")
        /\ UNCHANGED waiters
     \/ /\ Wakes
        /\ waiters' = waiters - 1
        /\ \E d \in Calls :
             /\ pc[d] = "asleep"
             /\ pc' = [pc EXCEPT ![c] = "returned", ![d] = "lock"]
  /\ UNCHANGED <<globalClient, done, config, failed, alone>>

Next == \E c \in Calls :
  \/ Call(c) \/ Reset(c) \/ Check(c) \/ Lock(c) \/ Recheck(c) \/ Create(c)
  \/ Store(c) \/ Unlock(c)

Spec == Init /\ [][Next]_vars

-----------------------------------------------------------------------------
(* Properties.                                                             *)

\* A call that runs beside no other takes effect, whatever calls that did run
\* beside each other have left behind: when it returns, its client is the
\* global one or it reports its error, and it neither sleeps nor crashes
\* (identity.go:44-56).
AloneTakesEffect ==
  [][\A c \in Calls :
       alone[c] =>
         /\ pc'[c] # "asleep"
         /\ Running(c) /\ pc'[c] = "returned" =>
              /\ ~crashed'
              /\ failed[c] = (config[c] \in Unnamed)
              /\ ~failed[c] => globalClient' = config[c]]_vars
=============================================================================
