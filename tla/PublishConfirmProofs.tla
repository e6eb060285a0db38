------------------------ MODULE PublishConfirmProofs ------------------------
(***************************************************************************)
(* Theorems about PublishConfirm for any number of calls, channels and     *)
(* faults.                                                                 *)
(***************************************************************************)
EXTENDS PublishConfirm, FiniteSetTheorems, TLAPS

(* An attempt the broker stored, or confirmed, has left a copy there.      *)
StoredInv == \A k \in Calls : attempt[k] \in {"stored", "acked"} => copies[k] > 0

(* The inductive invariant.                                                *)
CInv == TypeOK /\ StoredInv /\ SuccessMeansStored

(* Every step of a call, of the broker and of the network keeps the types. *)
LEMMA TypeStep == TypeOK /\ [Next]_vars => TypeOK'
<1> SUFFICES ASSUME TypeOK, [Next]_vars PROVE TypeOK'
  OBVIOUS
<1> USE NamesAssumption, BoundsAssumption
    DEF TypeOK, calls, faults, Channels, Pending, Goto, Modes
<1>1. ASSUME NEW k \in Calls, NEW c \in Chans, GetCached(k, c) PROVE TypeOK'
  BY <1>1 DEF GetCached
<1>2. ASSUME NEW k \in Calls, GetTransient(k) PROVE TypeOK'
  BY <1>2 DEF GetTransient
<1>3. ASSUME NEW k \in Calls, Publish(k) PROVE TypeOK'
  BY <1>3 DEF Publish
<1>4. ASSUME NEW k \in Calls, ReturnCached(k) PROVE TypeOK'
  BY <1>4 DEF ReturnCached, AfterReturn
<1>5. ASSUME NEW k \in Calls, CloseTransient(k) PROVE TypeOK'
  BY <1>5 DEF CloseTransient, AfterReturn, Stored
<1>6. ASSUME NEW k \in Calls, WaitConfirmed(k) PROVE TypeOK'
  BY <1>6 DEF WaitConfirmed
<1>7. ASSUME NEW k \in Calls, WaitTimeout(k) PROVE TypeOK'
  BY <1>7 DEF WaitTimeout
<1>8. ASSUME NEW k \in Calls, Cancel(k) PROVE TypeOK'
  BY <1>8 DEF Cancel
<1>9. ASSUME NEW k \in Calls, BrokerStores(k) PROVE TypeOK'
  BY <1>9 DEF BrokerStores, Stored
<1>10. ASSUME NEW k \in Calls, BrokerAcks(k) PROVE TypeOK'
  BY <1>10 DEF BrokerAcks
<1>11. ASSUME NEW k \in Calls, BrokerNacks(k) PROVE TypeOK'
  BY <1>11 DEF BrokerNacks
<1>12. ASSUME NEW c \in Channels, ChannelDies(c) PROVE TypeOK'
  BY <1>12 DEF ChannelDies
<1>13. CASE UNCHANGED vars
  BY <1>13 DEF vars
<1>14. QED
  BY <1>1, <1>2, <1>3, <1>4, <1>5, <1>6, <1>7, <1>8, <1>9, <1>10, <1>11,
     <1>12, <1>13
     DEF Next, Get, Step, Broker, WaitCancelled, Finished

(* A call learns of success only from an ack, and an ack follows the copy. *)
LEMMA CInvStep == CInv /\ [Next]_vars => CInv'
<1> SUFFICES ASSUME CInv, [Next]_vars PROVE CInv'
  OBVIOUS
<1> DEFINE Rest == StoredInv /\ SuccessMeansStored
<1>0. TypeOK /\ TypeOK' /\ Rest
  BY TypeStep DEF CInv
<1> SUFFICES Rest'
  BY <1>0 DEF CInv
<1> USE <1>0, BoundsAssumption
    DEF TypeOK, StoredInv, SuccessMeansStored, calls, faults, Pending, Confirmed
<1>1. ASSUME NEW k \in Calls, NEW c \in Chans, GetCached(k, c) PROVE Rest'
  BY <1>1 DEF GetCached
<1>2. ASSUME NEW k \in Calls, GetTransient(k) PROVE Rest'
  BY <1>2 DEF GetTransient
<1>3. ASSUME NEW k \in Calls, Publish(k) PROVE Rest'
  BY <1>3 DEF Publish
<1>4. ASSUME NEW k \in Calls, ReturnCached(k) PROVE Rest'
  BY <1>4 DEF ReturnCached, AfterReturn
<1>5. ASSUME NEW k \in Calls, CloseTransient(k) PROVE Rest'
  BY <1>5 DEF CloseTransient, AfterReturn, Stored
<1>6. ASSUME NEW k \in Calls, WaitConfirmed(k) PROVE Rest'
  BY <1>6 DEF WaitConfirmed
<1>7. ASSUME NEW k \in Calls, WaitTimeout(k) PROVE Rest'
  BY <1>7 DEF WaitTimeout
<1>8. ASSUME NEW k \in Calls, Cancel(k) PROVE Rest'
  BY <1>8 DEF Cancel
<1>9. ASSUME NEW k \in Calls, BrokerStores(k) PROVE Rest'
  BY <1>9 DEF BrokerStores, Stored
<1>10. ASSUME NEW k \in Calls, BrokerAcks(k) PROVE Rest'
  BY <1>10 DEF BrokerAcks
<1>11. ASSUME NEW k \in Calls, BrokerNacks(k) PROVE Rest'
  BY <1>11 DEF BrokerNacks
<1>12. ASSUME NEW c \in Channels, ChannelDies(c) PROVE Rest'
  BY <1>12 DEF ChannelDies
<1>13. CASE UNCHANGED vars
  BY <1>13 DEF vars
<1>14. QED
  BY <1>1, <1>2, <1>3, <1>4, <1>5, <1>6, <1>7, <1>8, <1>9, <1>10, <1>11,
     <1>12, <1>13
     DEF Next, Get, Step, Broker, WaitCancelled, Finished

(* No attempt has been made and no call has returned at first.             *)
LEMMA CInvInit == Init => CInv
<1> SUFFICES ASSUME Init PROVE CInv
  OBVIOUS
<1>1. TypeOK
  BY BoundsAssumption DEF Init, TypeOK, Channels
<1>2. StoredInv /\ SuccessMeansStored
  BY DEF Init, StoredInv, SuccessMeansStored
<1>3. QED
  BY <1>1, <1>2 DEF CInv

(* The inductive invariant holds in every reachable state.                 *)
THEOREM Invariance == Spec => []CInv
<1>1. Init => CInv
  BY CInvInit
<1>2. CInv /\ [Next]_vars => CInv'
  BY CInvStep
<1>3. QED
  BY <1>1, <1>2, PTL DEF Spec

(* Type correctness of the publishing calls.                               *)
THEOREM TypeCorrect == Spec => []TypeOK
<1>1. CInv => TypeOK
  BY DEF CInv
<1>2. QED
  BY <1>1, Invariance, PTL

(* PublishWithConfirmation and PublishWithConfirmationTransient return nil *)
(* only when the broker has stored the letter, for any number of           *)
(* concurrent calls, cached channels, channel deaths and nacks.            *)
THEOREM ConfirmedIsStored == Spec => []SuccessMeansStored
<1>1. CInv => SuccessMeansStored
  BY DEF CInv
<1>2. QED
  BY <1>1, Invariance, PTL

-----------------------------------------------------------------------------
(* Cached channels                                                         *)

(* A call is using its channel.                                            *)
Holds(k) == pc[k] \in {"publish", "return"}

(* A channel in use is out of the cache, in the hands of one call; a       *)
(* transient one is its call's own; and what is not in use is cached.      *)
HeldInv ==
    /\ \A k \in Calls : Holds(k) => on[k] \in (Chans \ free) \cup {k}
    /\ \A k, l \in Calls : Holds(k) /\ Holds(l) /\ on[k] = on[l] => k = l
    /\ \A c \in Chans \ free : \E k \in Calls : Holds(k) /\ on[k] = c

(* Getting and giving back are the only steps that move a channel.         *)
LEMMA HeldStep == TypeOK /\ HeldInv /\ [Next]_vars => HeldInv'
<1> SUFFICES ASSUME TypeOK, HeldInv, [Next]_vars PROVE HeldInv'
  OBVIOUS
<1>0. ASSUME on' = on, free' = free, \A k \in Calls : Holds(k)' = Holds(k)
      PROVE  HeldInv'
  BY <1>0 DEF HeldInv
<1>1. ASSUME NEW k \in Calls, NEW c \in Chans, GetCached(k, c) PROVE HeldInv'
  <2>1. /\ on'[k] = c /\ Holds(k)' /\ ~Holds(k) /\ c \in free /\ free' = free \ {c}
        /\ \A l \in Calls \ {k} : on'[l] = on[l] /\ Holds(l)' = Holds(l)
    BY <1>1 DEF GetCached, Goto, Holds, TypeOK
  <2>2. QED
    BY <2>1, NamesAssumption DEF HeldInv
<1>2. ASSUME NEW k \in Calls, GetTransient(k) PROVE HeldInv'
  <2>1. /\ on'[k] = k /\ Holds(k)' /\ ~Holds(k) /\ free' = free
        /\ \A l \in Calls \ {k} : on'[l] = on[l] /\ Holds(l)' = Holds(l)
    BY <1>2 DEF GetTransient, Goto, Holds, TypeOK
  <2>2. QED
    BY <2>1, NamesAssumption DEF HeldInv
<1>3. ASSUME NEW k \in Calls, Publish(k) PROVE HeldInv'
  BY <1>0, <1>3 DEF Publish, Goto, Holds, TypeOK
<1>4. ASSUME NEW k \in Calls, AfterReturn(k), on' = on, Holds(k),
             on[k] \in Chans => free' = free \cup {on[k]},
             on[k] \notin Chans => free' = free
      PROVE  HeldInv'
  <2>1. ~Holds(k)' /\ \A l \in Calls \ {k} : Holds(l)' = Holds(l)
    BY <1>4 DEF AfterReturn, Goto, Holds, TypeOK
  <2>2. QED
    BY <1>4, <2>1, NamesAssumption DEF HeldInv
<1>5. ASSUME NEW k \in Calls, ReturnCached(k) PROVE HeldInv'
  BY <1>4, <1>5 DEF ReturnCached, Holds
<1>6. ASSUME NEW k \in Calls, CloseTransient(k) PROVE HeldInv'
  BY <1>4, <1>6, NamesAssumption DEF CloseTransient, Holds
<1>7. ASSUME NEW k \in Calls, WaitConfirmed(k) \/ WaitTimeout(k) PROVE HeldInv'
  BY <1>0, <1>7 DEF WaitConfirmed, WaitTimeout, Goto, Holds, TypeOK
<1>8. CASE \/ \E k \in Calls : Cancel(k) \/ Broker(k)
           \/ \E c \in Channels : ChannelDies(c)
           \/ UNCHANGED vars
  BY <1>0, <1>8 DEF Cancel, Broker, BrokerStores, BrokerAcks, BrokerNacks, ChannelDies,
                    vars, Holds
<1>9. QED
  BY <1>1, <1>2, <1>3, <1>5, <1>6, <1>7, <1>8
     DEF Next, Get, Step, WaitCancelled, Finished

(* No cached channel is ever lost or lent twice, for any number of calls   *)
(* and channels: ReturnChannel gives every one of them back.               *)
THEOREM ChannelsReturned == Spec => []ChannelsAccountedFor
<1>1. Init => HeldInv
  BY DEF Init, HeldInv, Holds
<1>2. TypeOK /\ HeldInv => ChannelsAccountedFor
  <2> SUFFICES ASSUME TypeOK, HeldInv PROVE ChannelsAccountedFor
    OBVIOUS
  <2>1. ASSUME NEW c \in Chans \ free
        PROVE  Cardinality({k \in Calls : on[k] = c /\ pc[k] \in {"publish", "return"}}) = 1
    <3>1. PICK k \in Calls : Holds(k) /\ on[k] = c
      BY DEF HeldInv
    <3>2. {l \in Calls : on[l] = c /\ pc[l] \in {"publish", "return"}} = {k}
      BY <3>1 DEF HeldInv, Holds
    <3>3. QED
      BY <3>2, FS_Singleton
  <2>2. ASSUME NEW k \in Calls, pc[k] \in {"publish", "return"}
        PROVE  on[k] \notin free
    BY <2>2, NamesAssumption DEF HeldInv, Holds, TypeOK
  <2>3. QED
    BY <2>1, <2>2 DEF ChannelsAccountedFor
<1>3. QED
  BY <1>1, <1>2, HeldStep, TypeCorrect, PTL DEF Spec

-----------------------------------------------------------------------------
(* Copies                                                                  *)

(* A copy beyond the faults so far is the one of an attempt that can still *)
(* be confirmed, and PublishWithConfirmation starts no other attempt while *)
(* there is one.                                                           *)
CopyInv ==
    \A k \in Calls : mode[k] = "confirm" =>
        /\ pc[k] \in {"get", "publish"} => attempt[k] \in {"none", "nacked"}
        /\ pc[k] \in {"publish", "return"} => on[k] # k
        /\ pc[k] = "return" /\ err[k] => attempt[k] = "none"
        /\ copies[k] <= deaths + nacks + (IF attempt[k] \in {"stored", "acked"} THEN 1 ELSE 0)

(* Each step of a call, of the broker and of the network keeps it.         *)
LEMMA CopyStep == TypeOK /\ CopyInv /\ [Next]_vars => CopyInv'
<1> SUFFICES ASSUME TypeOK, CopyInv, [Next]_vars PROVE CopyInv'
  OBVIOUS
<1> USE BoundsAssumption, NamesAssumption DEF TypeOK, CopyInv, calls, faults, Goto
<1>1. ASSUME NEW k \in Calls, NEW c \in Chans, GetCached(k, c) PROVE CopyInv'
  BY <1>1 DEF GetCached
<1>2. ASSUME NEW k \in Calls, GetTransient(k) PROVE CopyInv'
  BY <1>2 DEF GetTransient, Transient
<1>3. ASSUME NEW k \in Calls, Publish(k) PROVE CopyInv'
  BY <1>3 DEF Publish
<1>4. ASSUME NEW k \in Calls, ReturnCached(k) PROVE CopyInv'
  BY <1>4 DEF ReturnCached, AfterReturn, Confirmed
<1>5. ASSUME NEW k \in Calls, CloseTransient(k) PROVE CopyInv'
  BY <1>5 DEF CloseTransient, AfterReturn, Stored
<1>6. ASSUME NEW k \in Calls, WaitConfirmed(k) PROVE CopyInv'
  BY <1>6 DEF WaitConfirmed
<1>7. ASSUME NEW k \in Calls, WaitTimeout(k) PROVE CopyInv'
  BY <1>7 DEF WaitTimeout
<1>8. ASSUME NEW k \in Calls, Cancel(k) PROVE CopyInv'
  BY <1>8 DEF Cancel
<1>9. ASSUME NEW k \in Calls, BrokerStores(k) PROVE CopyInv'
  BY <1>9 DEF BrokerStores, Stored
<1>10. ASSUME NEW k \in Calls, BrokerAcks(k) PROVE CopyInv'
  BY <1>10 DEF BrokerAcks
<1>11. ASSUME NEW k \in Calls, BrokerNacks(k) PROVE CopyInv'
  BY <1>11 DEF BrokerNacks
<1>12. ASSUME NEW c \in Channels, ChannelDies(c) PROVE CopyInv'
  BY <1>12 DEF ChannelDies, Pending
<1>13. CASE UNCHANGED vars
  BY <1>13 DEF vars
<1>14. QED
  BY <1>1, <1>2, <1>3, <1>4, <1>5, <1>6, <1>7, <1>8, <1>9, <1>10, <1>11,
     <1>12, <1>13
     DEF Next, Get, Step, Broker, WaitCancelled, Finished

(* PublishWithConfirmation stores at most one copy more than there were    *)
(* nacks and dead channels, for any number of concurrent calls.            *)
THEOREM RepublishesOnlyAfterFault == Spec => []RepublishNeedsFault
<1>1. Init => CopyInv
  BY DEF Init, CopyInv
<1>2. TypeOK /\ CopyInv => RepublishNeedsFault
  BY DEF TypeOK, CopyInv, RepublishNeedsFault
<1>3. QED
  BY <1>1, <1>2, CopyStep, TypeCorrect, PTL DEF Spec
=============================================================================
