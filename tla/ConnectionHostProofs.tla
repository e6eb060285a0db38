------------------------ MODULE ConnectionHostProofs ------------------------
(***************************************************************************)
(* Theorems about ConnectionHost for any set of returners and any bounds.  *)
(***************************************************************************)
EXTENDS ConnectionHost, SequenceTheorems, TLAPS

(* connLock is owned by exactly the goroutine inside a critical section.   *)
LockInv == \A w \in Workers : pc[w] \in Holding <=> connLock = w

(* The goroutine about to dial saw the connection closed, and only the     *)
(* owner of connLock could have replaced it since.                         *)
DialInv == \A w \in Workers : pc[w] = "dial" => IsClosed(Connection)

(* No connection exists beyond the last dial.                              *)
FreshInv == \A d \in Dials : d > Connection => life[d] = "none"

(* The fields are consistent unless a goroutine is between the assignment  *)
(* of ch.Connection and NotifyClose.                                       *)
FieldsInv ==
    /\ (\A w \in Workers : pc[w] \notin {"install", "notify"})
          => Errors = Connection /\ watched[Connection]
    /\ \A w \in Workers : pc[w] = "notify" => Errors = Connection

(* The inductive invariant.                                                *)
IInv == TypeOK /\ LockInv /\ DialInv /\ FreshInv /\ OneLiveConnection /\ FieldsInv

USE DEF Workers, Dials

(* Every step of every goroutine and of the server keeps each variable of  *)
(* the host within its type.                                               *)
LEMMA TypeStep == TypeOK /\ [Next]_vars => TypeOK'
<1> SUFFICES ASSUME TypeOK, [Next]_vars PROVE TypeOK'
  OBVIOUS
<1> USE BoundsAssumption, WorkersAssumption DEF TypeOK, host, server, Goto, Labels
<1>1. ASSUME NEW w \in Workers, VerifyErrors(w) PROVE TypeOK'
  BY <1>1 DEF VerifyErrors, ErrorsClosed
<1>2. ASSUME NEW w \in Workers, VerifyFlag(w) PROVE TypeOK'
  BY <1>2 DEF VerifyFlag
<1>3. ASSUME NEW w \in Workers, VerifyDecide(w) PROVE TypeOK'
  BY <1>3 DEF VerifyDecide
<1>4. ASSUME NEW w \in Workers, Compare(w) PROVE TypeOK'
  BY <1>4 DEF Compare
<1>5. ASSUME NEW w \in Workers, Lock(w) PROVE TypeOK'
  BY <1>5 DEF Lock
<1>6. ASSUME NEW w \in Workers, Recompare(w) PROVE TypeOK'
  BY <1>6 DEF Recompare
<1>7. ASSUME NEW w \in Workers, DialFails(w) PROVE TypeOK'
  BY <1>7 DEF DialFails
<1>8. ASSUME NEW w \in Workers, DialSucceeds(w) PROVE TypeOK'
  <2>1. Connection' \in Dials
    BY <1>8 DEF DialSucceeds
  <2>2. life' \in [Dials -> {"none", "open", "closing", "down"}]
    BY <1>8 DEF DialSucceeds
  <2>3. UNCHANGED <<Errors, watched, reachable, outages, notices, refusals,
                    connLock, blockers, errored, flagged, unhealthy>>
    BY <1>8 DEF DialSucceeds
  <2>4. pc' \in [Workers -> Labels] /\ alarm' \in BOOLEAN
    BY <1>8 DEF DialSucceeds
  <2>5. QED
    BY <2>1, <2>2, <2>3, <2>4
<1>9. ASSUME NEW w \in Workers, InstallChannels(w) PROVE TypeOK'
  BY <1>9 DEF InstallChannels
<1>10. ASSUME NEW w \in Workers, Register(w) PROVE TypeOK'
  BY <1>10 DEF Register
<1>11. ASSUME NEW w \in Workers, FlushError(w) PROVE TypeOK'
  BY <1>11 DEF FlushError
<1>12. ASSUME NEW w \in Workers, FlushDone(w) PROVE TypeOK'
  BY <1>12 DEF FlushDone
<1>13. ASSUME NEW w \in Workers, Unflag(w) PROVE TypeOK'
  BY <1>13 DEF Unflag
<1>14. ASSUME NEW w \in Workers, PauseLock(w) PROVE TypeOK'
  BY <1>14 DEF PauseLock
<1>15. ASSUME NEW w \in Workers, PauseSleeps(w) PROVE TypeOK'
  BY <1>15 DEF PauseSleeps
<1>16. ASSUME NEW w \in Workers, PauseReturns(w) PROVE TypeOK'
  <2>0. \/ blockers' = blockers
        \/ blockers # <<>> /\ blockers' = Tail(blockers)
    BY <1>16 DEF PauseReturns
  <2>1. blockers' \in Seq({"blocked", "unblocked"})
    <3>1. CASE blockers' = blockers
      BY <3>1
    <3>2. CASE blockers # <<>> /\ blockers' = Tail(blockers)
      BY <3>2, HeadTailProperties
    <3>3. QED
      BY <2>0, <3>1, <3>2
  <2>2. connLock' = NoOne /\ pc' \in [Workers -> Labels]
    BY <1>16 DEF PauseReturns
  <2>3. UNCHANGED <<host, server, life, errored, flagged, unhealthy>>
    BY <1>16 DEF PauseReturns
  <2>4. QED
    BY <2>1, <2>2, <2>3
<1>17. ASSUME NEW w \in Workers, MakeChannel(w) PROVE TypeOK'
  BY <1>17 DEF MakeChannel
<1>18. ASSUME NEW w \in Workers, MakeChannelFails(w) PROVE TypeOK'
  BY <1>18 DEF MakeChannelFails
<1>19. ASSUME NEW d \in Dials, ConnectionLost(d) PROVE TypeOK'
  BY <1>19 DEF ConnectionLost
<1>20. ASSUME NEW d \in Dials, Broadcast(d) PROVE TypeOK'
  BY <1>20 DEF Broadcast
<1>21. CASE Outage
  <2>1. outages' \in 0 .. MaxOutages
    BY <1>21 DEF Outage
  <2>2. QED
    BY <1>21, <2>1 DEF Outage
<1>22. CASE Restore
  BY <1>22 DEF Restore
<1>23. CASE BlockedFrame
  BY <1>23 DEF BlockedFrame
<1>24. CASE UNCHANGED vars
  BY <1>24 DEF vars
<1>25. QED
  BY <1>1, <1>2, <1>3, <1>4, <1>5, <1>6, <1>7, <1>8, <1>9, <1>10, <1>11, <1>12,
     <1>13, <1>14, <1>15, <1>16, <1>17, <1>18, <1>19, <1>20, <1>21, <1>22, <1>23,
     <1>24 DEF Next, Step, Acquire, Call, FlushSpin, Server

(* Every step preserves the parts of the inductive invariant that are not  *)
(* types.                                                                  *)
LEMMA IInvStep == IInv /\ [Next]_vars => IInv'
<1> SUFFICES ASSUME IInv, [Next]_vars PROVE IInv'
  OBVIOUS
<1> DEFINE Rest == LockInv /\ DialInv /\ FreshInv /\ OneLiveConnection /\ FieldsInv
<1>0. TypeOK /\ TypeOK' /\ Rest
  BY TypeStep DEF IInv
<1> SUFFICES Rest'
  BY <1>0 DEF IInv
<1> USE <1>0, BoundsAssumption, WorkersAssumption
    DEF TypeOK, LockInv, DialInv, FreshInv, OneLiveConnection, FieldsInv,
        Holding, IsClosed, host, Goto
<1>1. ASSUME NEW w \in Workers, VerifyErrors(w) PROVE Rest'
  BY <1>1 DEF VerifyErrors
<1>2. ASSUME NEW w \in Workers, VerifyFlag(w) PROVE Rest'
  BY <1>2 DEF VerifyFlag
<1>3. ASSUME NEW w \in Workers, VerifyDecide(w) PROVE Rest'
  BY <1>3 DEF VerifyDecide
<1>4. ASSUME NEW w \in Workers, Compare(w) PROVE Rest'
  BY <1>4 DEF Compare
<1>5. ASSUME NEW w \in Workers, Lock(w) PROVE Rest'
  BY <1>5 DEF Lock
<1>6. ASSUME NEW w \in Workers, Recompare(w) PROVE Rest'
  <2>1. CASE IsClosed(Connection)
    <3>1. Goto(w, "dial") /\ connLock' = connLock
      BY <1>6, <2>1 DEF Recompare
    <3>2. QED
      BY <1>6, <2>1, <3>1 DEF Recompare
  <2>2. CASE ~IsClosed(Connection)
    <3>1. Goto(w, "flush") /\ connLock' = NoOne
      BY <1>6, <2>2 DEF Recompare
    <3>2. QED
      BY <1>6, <2>2, <3>1 DEF Recompare
  <2>3. QED
    BY <2>1, <2>2
<1>7. ASSUME NEW w \in Workers, DialFails(w) PROVE Rest'
  BY <1>7 DEF DialFails
<1>8. ASSUME NEW w \in Workers, DialSucceeds(w) PROVE Rest'
  <2>1. LockInv' /\ DialInv' /\ FieldsInv'
    BY <1>8 DEF DialSucceeds
  <2>2. FreshInv'
    BY <1>8 DEF DialSucceeds
  <2>3. OneLiveConnection'
    <3>1. \A d \in Dials : life[d] # "open"
      BY <1>8 DEF DialSucceeds   \* the old connection is closed, by DialInv
    <3>2. QED
      BY <1>8, <3>1 DEF DialSucceeds
  <2>4. QED
    BY <2>1, <2>2, <2>3
<1>9. ASSUME NEW w \in Workers, InstallChannels(w) PROVE Rest'
  BY <1>9 DEF InstallChannels
<1>10. ASSUME NEW w \in Workers, Register(w) PROVE Rest'
  BY <1>10 DEF Register
<1>11. ASSUME NEW w \in Workers, FlushError(w) PROVE Rest'
  BY <1>11 DEF FlushError
<1>12. ASSUME NEW w \in Workers, FlushDone(w) PROVE Rest'
  BY <1>12 DEF FlushDone
<1>13. ASSUME NEW w \in Workers, Unflag(w) PROVE Rest'
  BY <1>13 DEF Unflag
<1>14. ASSUME NEW w \in Workers, PauseLock(w) PROVE Rest'
  BY <1>14 DEF PauseLock
<1>15. ASSUME NEW w \in Workers, PauseSleeps(w) PROVE Rest'
  BY <1>15 DEF PauseSleeps
<1>16. ASSUME NEW w \in Workers, PauseReturns(w) PROVE Rest'
  BY <1>16 DEF PauseReturns
<1>17. ASSUME NEW w \in Workers, MakeChannel(w) PROVE Rest'
  BY <1>17 DEF MakeChannel
<1>18. ASSUME NEW w \in Workers, MakeChannelFails(w) PROVE Rest'
  BY <1>18 DEF MakeChannelFails
<1>19. ASSUME NEW d \in Dials, ConnectionLost(d) PROVE Rest'
  BY <1>19 DEF ConnectionLost
<1>20. ASSUME NEW d \in Dials, Broadcast(d) PROVE Rest'
  BY <1>20 DEF Broadcast
<1>21. CASE Outage
  BY <1>21 DEF Outage
<1>22. CASE Restore
  BY <1>22 DEF Restore
<1>23. CASE BlockedFrame
  BY <1>23 DEF BlockedFrame
<1>24. CASE UNCHANGED vars
  BY <1>24 DEF vars
<1>25. QED
  BY <1>1, <1>2, <1>3, <1>4, <1>5, <1>6, <1>7, <1>8, <1>9, <1>10, <1>11,
     <1>12, <1>13, <1>14, <1>15, <1>16, <1>17, <1>18, <1>19, <1>20, <1>21,
     <1>22, <1>23, <1>24
     DEF Next, Step, Acquire, Call, FlushSpin, Server

(* The host NewConnectionHost returns satisfies the inductive invariant.    *)
LEMMA IInvInit == Init => IInv
<1> SUFFICES ASSUME Init PROVE IInv
  OBVIOUS
<1>1. TypeOK
  <2>1. Connection \in Dials /\ Errors \in Dials /\ blockers \in Seq({"blocked", "unblocked"})
    BY BoundsAssumption DEF Init
  <2>2. /\ life \in [Dials -> {"none", "open", "closing", "down"}]
        /\ errored \in [Dials -> BOOLEAN]
        /\ watched \in [Dials -> BOOLEAN]
    BY DEF Init
  <2>3. /\ outages \in 0 .. MaxOutages
        /\ notices \in 0 .. MaxNotices
        /\ refusals \in 0 .. MaxRefusals
    BY BoundsAssumption DEF Init
  <2>4. pc \in [Workers -> Labels] /\ unhealthy \in [Workers -> BOOLEAN]
    BY DEF Init, Labels
  <2>5. QED
    BY <2>1, <2>2, <2>3, <2>4 DEF Init, TypeOK
<1>2. LockInv /\ DialInv
  BY WorkersAssumption DEF Init, LockInv, DialInv, Holding
<1>3. FreshInv /\ OneLiveConnection
  BY BoundsAssumption DEF Init, FreshInv, OneLiveConnection
<1>4. FieldsInv
  <2>1. \A w \in Workers : pc[w] = "idle"
    BY DEF Init
  <2>2. Errors = Connection /\ watched[Connection]
    <3>1. 1 \in Dials
      BY BoundsAssumption
    <3>2. watched[1] = (1 = 1)
      BY <3>1, Zenon DEF Init
    <3>3. QED
      BY <3>2 DEF Init
  <2>3. QED
    BY <2>1, <2>2 DEF FieldsInv
<1>5. QED
  BY <1>1, <1>2, <1>3, <1>4 DEF IInv

(* The inductive invariant holds in every reachable state.                 *)
THEOREM Invariance == Safety => []IInv
<1>1. Init => IInv
  BY IInvInit
<1>2. IInv /\ [Next]_vars => IInv'
  BY IInvStep
<1>3. QED
  BY <1>1, <1>2, PTL DEF Safety

(* Type correctness: the fields of a host, the states of its connections   *)
(* and the goroutines' positions keep their types.                         *)
THEOREM TypeCorrect == Safety => []TypeOK
<1>1. IInv => TypeOK
  BY DEF IInv
<1>2. QED
  BY <1>1, Invariance, PTL

(* However many goroutines return erred channels at once, the compare,     *)
(* lock, recompare protocol of ConnectWithErrorHandler never replaces a    *)
(* live connection: only ch.Connection can be open.                        *)
THEOREM NoOrphanConnection == Safety => []OneLiveConnection
<1>1. IInv => OneLiveConnection
  BY DEF IInv
<1>2. QED
  BY <1>1, Invariance, PTL

(* Whenever connLock is free the host listens to the connection it holds.  *)
THEOREM LossIsNoticed == Safety => []WatchedConnection
<1>1. IInv => WatchedConnection
  <2> SUFFICES ASSUME IInv, connLock = NoOne
               PROVE Errors = Connection /\ watched[Connection]
    BY DEF WatchedConnection
  <2>1. \A w \in Workers : pc[w] \notin Holding
    BY WorkersAssumption DEF IInv, LockInv
  <2>2. QED
    BY <2>1 DEF IInv, FieldsInv, Holding
<1>2. QED
  BY <1>1, Invariance, PTL
=============================================================================
