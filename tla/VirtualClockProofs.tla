------------------------- MODULE VirtualClockProofs -------------------------
(***************************************************************************)
(* Virtual time and the ledger stay in order, for any number of commands,  *)
(* administrators and crashes.                                             *)
(***************************************************************************)
EXTENDS VirtualClock, TLAPS

\* Holders and Times, with the types, are an invariant of the clock.
THEOREM ClockInvariance == Spec => []ClockInv
<1> USE VirtualClockAssumption DEF Procs
<1>1. Init => ClockInv
  BY DEF Init, ClockInv, TypeOK, Holders, Times, PCs
<1>2. ClockInv /\ [Next]_vars => ClockInv'
  <2> SUFFICES ASSUME ClockInv, [Next]_vars PROVE ClockInv'
    OBVIOUS
  <2> USE DEF ClockInv, TypeOK, Holders, Times, PCs, Goto
  <2>1. ASSUME NEW p \in Procs, Call(p) PROVE ClockInv'
    BY <2>1 DEF Call
  <2>2. ASSUME NEW c \in Commands, BeginTx(c) PROVE ClockInv'
    BY <2>2 DEF BeginTx
  <2>3. ASSUME NEW c \in Commands, Now(c) PROVE ClockInv'
    BY <2>3 DEF Now
  <2>4. ASSUME NEW c \in Commands, CommitTx(c) PROVE ClockInv'
    BY <2>4 DEF CommitTx
  <2>5. ASSUME NEW c \in Commands, Disconnect(c) PROVE ClockInv'
    BY <2>5 DEF Disconnect
  <2>6. ASSUME NEW a \in Advances, Lock(a) PROVE ClockInv'
    BY <2>6 DEF Lock
  <2>7. ASSUME NEW a \in Advances, StoreTime(a) PROVE ClockInv'
    BY <2>7 DEF StoreTime
  <2>8. ASSUME NEW a \in Advances, Unlock(a) PROVE ClockInv'
    BY <2>8 DEF Unlock
  <2>9. ASSUME NEW a \in Advances, StoreFails(a) PROVE ClockInv'
    BY <2>9 DEF StoreFails
  <2>10. CASE Crash
    BY <2>10 DEF Crash
  <2>11. CASE UNCHANGED vars
    BY <2>11 DEF vars
  <2> QED
    BY <2>1, <2>2, <2>3, <2>4, <2>5, <2>6, <2>7, <2>8, <2>9, <2>10, <2>11
    DEF Next, CommandStep, AdvanceStep
<1> QED
  BY <1>1, <1>2, PTL DEF Spec

\* A restart never comes back to a time before a committed event.
THEOREM CommittedTimes == Spec => []CommittedTimeIsStored
<1>1. ClockInv => CommittedTimeIsStored
  BY DEF ClockInv, TypeOK, Times, CommittedTimeIsStored
<1> QED
  BY <1>1, ClockInvariance, PTL

\* Events are committed in the order of their virtual times.
THEOREM LedgerTimeIsMonotone == Spec => TimeNeverRunsBack
<1>1. ClockInv /\ [Next]_vars => [last <= last']_vars
  <2> SUFFICES ASSUME ClockInv, Next PROVE last <= last'
    BY DEF vars
  <2>1. ASSUME NEW c \in Commands, CommitTx(c) PROVE last <= last'
    BY <2>1 DEF CommitTx, ClockInv, Times
  <2>2. CASE UNCHANGED last
    BY <2>2 DEF ClockInv, TypeOK
  <2> QED
    BY <2>1, <2>2 DEF Next, CommandStep, AdvanceStep, Call, BeginTx, Now, Disconnect,
                      Lock, StoreTime, Unlock, StoreFails, Crash
<1> QED
  BY <1>1, ClockInvariance, PTL DEF Spec, TimeNeverRunsBack
=============================================================================
