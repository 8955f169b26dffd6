---------------------------- MODULE VirtualClock ----------------------------
(***************************************************************************)
(* The persistent virtual clock and the one database connection.           *)
(*                                                                         *)
(* Advancing the clock takes its mutex and then waits for the connection   *)
(* to store the new time; a payment command takes the connection for its   *)
(* transaction and then waits for the mutex to read the time its event is  *)
(* stamped with.                                                           *)
(***************************************************************************)
EXTENDS Integers

CONSTANTS
    Commands,    \* payment commands in flight
    Advances,    \* administrators advancing time
    Cancellable, \* the commands whose context can be cancelled: HTTP requests
    Nobody,      \* holder of a free mutex or connection
    MaxTime,     \* stored time at which administrators stop advancing
    MaxCrashes   \* bound on process crashes

ASSUME VirtualClockAssumption ==
    /\ Cancellable \subseteq Commands
    /\ Commands \cap Advances = {}
    /\ Nobody \notin Commands \cup Advances
    /\ MaxTime \in Nat \ {0}
    /\ MaxCrashes \in Nat

VARIABLES
    stored,   \* runtime_state: the persisted time
    current,  \* the time Now returns
    mu,       \* writer holding the clock's mutex
    conn,     \* transaction holding the connection
    pc,       \* where each caller is
    stamp,    \* the time a command read for its event
    last,     \* time of the newest committed event
    crashes   \* history: crashes so far

vars == <<stored, current, mu, conn, pc, stamp, last, crashes>>

Procs == Commands \cup Advances

Init ==
    /\ stored = 1
    /\ current = 1
    /\ mu = Nobody
    /\ conn = Nobody
    /\ pc = [p \in Procs |-> "idle"]
    /\ stamp = [c \in Commands |-> 0]
    /\ last = 0
    /\ crashes = 0

Goto(p, at) == pc' = [pc EXCEPT ![p] = at]

-----------------------------------------------------------------------------
\* A caller arrives; administrators stop asking at the time bound.
Call(p) ==
    /\ pc[p] = "idle"
    /\ p \in Advances => stored < MaxTime
    /\ Goto(p, "called")
    /\ UNCHANGED <<stored, current, mu, conn, stamp, last, crashes>>

\* WithinTransaction begins once the connection is free ...
BeginTx(c) ==
    /\ pc[c] = "called"
    /\ conn = Nobody
    /\ conn' = c
    /\ Goto(c, "tx")
    /\ UNCHANGED <<stored, current, mu, stamp, last, crashes>>

\* ... the event publisher reads the clock inside it ...
Now(c) ==
    /\ pc[c] = "tx"
    /\ mu = Nobody
    /\ stamp' = [stamp EXCEPT ![c] = current]
    /\ Goto(c, "stamped")
    /\ UNCHANGED <<stored, current, mu, conn, last, crashes>>

\* ... and the commit makes the event part of the ledger.
CommitTx(c) ==
    /\ pc[c] = "stamped"
    /\ conn' = Nobody
    /\ last' = stamp[c]
    /\ stamp' = [stamp EXCEPT ![c] = 0]
    /\ Goto(c, "idle")
    /\ UNCHANGED <<stored, current, mu, crashes>>

\* Mutant of Disconnect: the transaction is not rolled back.
DisconnectKeepsConn(c) ==
    /\ c \in Cancellable
    /\ pc[c] \in {"called", "tx", "stamped"}
    /\ stamp' = [stamp EXCEPT ![c] = 0]
    /\ Goto(c, "idle")
    /\ UNCHANGED <<stored, current, mu, conn, last, crashes>>

\* A cancelled context rolls the transaction back and frees the connection,
\* even while the handler waits for the clock.
Disconnect(c) ==
    /\ c \in Cancellable
    /\ pc[c] \in {"called", "tx", "stamped"}
    /\ conn' = IF conn = c THEN Nobody ELSE conn
    /\ stamp' = [stamp EXCEPT ![c] = 0]
    /\ Goto(c, "idle")
    /\ UNCHANGED <<stored, current, mu, last, crashes>>

\* Advance: the mutex first ...
Lock(a) ==
    /\ pc[a] = "called"
    /\ mu = Nobody
    /\ mu' = a
    /\ Goto(a, "locked")
    /\ UNCHANGED <<stored, current, conn, stamp, last, crashes>>

\* ... then the new time is stored, on the connection and without a timeout ...
StoreTime(a) ==
    /\ pc[a] = "locked"
    /\ conn = Nobody
    /\ stored' = current + 1
    /\ Goto(a, "saved")
    /\ UNCHANGED <<current, mu, conn, stamp, last, crashes>>

\* ... and only then visible.
Unlock(a) ==
    /\ pc[a] = "saved"
    /\ current' = stored
    /\ mu' = Nobody
    /\ Goto(a, "idle")
    /\ UNCHANGED <<stored, conn, stamp, last, crashes>>

\* Mutant of StoreFails: the new time is visible although it was not stored.
StoreFailsButShows(a) ==
    /\ pc[a] = "locked"
    /\ conn = Nobody
    /\ current' = current + 1
    /\ mu' = Nobody
    /\ Goto(a, "idle")
    /\ UNCHANGED <<stored, conn, stamp, last, crashes>>

\* The statement fails: the deferred unlock leaves the clock as it was.
StoreFails(a) ==
    /\ pc[a] = "locked"
    /\ conn = Nobody
    /\ mu' = Nobody
    /\ Goto(a, "idle")
    /\ UNCHANGED <<stored, current, conn, stamp, last, crashes>>

\* NewPersistentVirtualClock restarts from the stored time.
Crash ==
    /\ crashes < MaxCrashes
    /\ crashes' = crashes + 1
    /\ current' = stored
    /\ mu' = Nobody
    /\ conn' = Nobody
    /\ pc' = [p \in Procs |-> "idle"]
    /\ stamp' = [c \in Commands |-> 0]
    /\ UNCHANGED <<stored, last>>

CommandStep(c) == BeginTx(c) \/ Now(c) \/ CommitTx(c)
AdvanceStep(a) == Lock(a) \/ StoreTime(a) \/ Unlock(a)

Next ==
    \/ \E p \in Procs : Call(p)
    \/ \E c \in Commands : CommandStep(c) \/ Disconnect(c)
    \/ \E a \in Advances : AdvanceStep(a) \/ StoreFails(a)
    \/ Crash

Spec == Init /\ [][Next]_vars

\* Callers keep going; the connection pool and the mutex do not starve a waiter.
FairSpec ==
    /\ Spec
    /\ \A c \in Commands : SF_vars(CommandStep(c))
    /\ \A a \in Advances : SF_vars(AdvanceStep(a))

\* Moreover a client that is not answered disconnects some day.
ImpatientSpec ==
    /\ FairSpec
    /\ \A c \in Cancellable : WF_vars(Disconnect(c))

-----------------------------------------------------------------------------
PCs == {"idle", "called", "tx", "stamped", "locked", "saved"}

\* Types of the clock, the two resources and the callers.
TypeOK ==
    /\ stored \in Nat \ {0}
    /\ current \in Nat \ {0}
    /\ mu \in Advances \cup {Nobody}
    /\ conn \in Commands \cup {Nobody}
    /\ pc \in [Procs -> PCs]
    /\ stamp \in [Commands -> Nat]
    /\ last \in Nat
    /\ crashes \in Nat

\* No committed event is later than the time a restart would come back to:
\* Advance stores the time before Now can return it.
CommittedTimeIsStored == last <= stored

\* Events are committed in the order of their virtual times, restarts and
\* concurrent advances included; the ledger is read back in time order.
TimeNeverRunsBack == [][last <= last']_vars

\* Everyone who called returns.  The connection and the mutex are taken in
\* opposite orders, so this rests on blocked clients giving up.
EveryCallReturns == \A p \in Procs : pc[p] # "idle" ~> pc[p] = "idle"

-----------------------------------------------------------------------------
(* The inductive invariant behind the two safety properties.               *)

\* Who holds the mutex and the connection, and what that says of the times.
Holders ==
    /\ \A a \in Advances : pc[a] \in {"locked", "saved"} <=> mu = a
    /\ \A a \in Advances : pc[a] \in {"idle", "called", "locked", "saved"}
    /\ \A c \in Commands : pc[c] \in {"tx", "stamped"} <=> conn = c
    /\ \A c \in Commands : pc[c] \in {"idle", "called", "tx", "stamped"}

\* The times, in the order they move.
Times ==
    /\ last <= current
    /\ current <= stored
    /\ \A c \in Commands : pc[c] = "stamped" => last <= stamp[c] /\ stamp[c] <= current
    /\ \A a \in Advances : pc[a] = "locked" => stored = current
    /\ mu = Nobody => stored = current

ClockInv == TypeOK /\ Holders /\ Times
=============================================================================
