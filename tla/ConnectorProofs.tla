-------------------------- MODULE ConnectorProofs --------------------------
(***************************************************************************)
(* Proofs about Connector for every number of callers, loops, connections, *)
(* endpoints and ciphers, every limit on the attempts and every capacity.  *)
(*                                                                         *)
(* Each section strengthens a property to an inductive invariant and shows *)
(* that Init establishes it and that every action preserves it, with one   *)
(* step per action.                                                        *)
(***************************************************************************)
EXTENDS Connector, TLAPS

-----------------------------------------------------------------------------
(* Types.  TypeOK bounds the attempts of a loop; that a failed Connect     *)
(* stays within the bound needs AttemptBudget.                             *)

TypeInv == TypeOK /\ AttemptBudget

\* The fields New sets and the goroutines it does not start have their types.
LEMMA TypeInit == Init => TypeInv
<1> SUFFICES ASSUME Init PROVE TypeInv
  OBVIOUS
<1>1. \A p \in Callers : p \notin Loops
  BY ConnectorAssumption
<1>2. 0 \in 0..MaxAttempts /\ 0 \in 0..Capacity
  BY ConnectorAssumption
<1>3. pc \in [Procs -> CallerLabels \cup LoopLabels]
  BY DEF Init, CallerLabels, LoopLabels
<1>4. /\ \A p \in Callers : pc[p] = "idle"
      /\ \A l \in Loops : pc[l] = "free"
  BY <1>1 DEF Init, Procs
<1>5. AttemptBudget
  BY <1>4 DEF AttemptBudget, ConnectLabels
<1> QED
  BY ZenonT(30), <1>2, <1>3, <1>4, <1>5, ConnectorAssumption
     DEF Init, TypeInv, TypeOK, CallerLabels, LoopLabels, ReadLabels

\* Every step of the callers, the loops and the readers keeps the types.
LEMMA TypeStep == TypeInv /\ [Next]_vars => TypeInv'
<1> SUFFICES ASSUME TypeInv, [Next]_vars PROVE TypeInv'
  BY SMTT(30)
<1> USE ConnectorAssumption DEF TypeInv, TypeOK, AttemptBudget, Procs,
       CallerLabels, LoopLabels, ConnectLabels, ReadLabels, Goto, flags, data, loops, conns, locals, ciphers
<1>1. ASSUME NEW p \in Callers, NEW e \in Endpoints, CallConnect(p, e) PROVE TypeInv'
  BY <1>1 DEF CallConnect
<1>2. ASSUME NEW p \in Callers, Disconnect(p) PROVE TypeInv'
  BY <1>2 DEF Disconnect, CancelReconnect
<1>3. ASSUME NEW p \in Callers, Close(p) PROVE TypeInv'
  BY <1>3 DEF Close
<1>4. ASSUME NEW p \in Callers, TriggerReconnect(p) PROVE TypeInv'
  BY <1>4 DEF TriggerReconnect, StartLoop, NoLoopNeeded
<1>5. ASSUME NEW p \in Callers, NEW k \in Ciphers, SetCipher(p, k) PROVE TypeInv'
  BY <1>5 DEF SetCipher
<1>6. ASSUME NEW p \in Callers, NEW pool \in Pools, UpdateEndpoints(p, pool)
      PROVE TypeInv'
  BY <1>6 DEF UpdateEndpoints
<1>7. ASSUME NEW p \in Callers, WaitForConnection(p) PROVE TypeInv'
  BY <1>7 DEF WaitForConnection, IsConnected
<1>8. ASSUME NEW p \in Callers, CloseUnregister(p) PROVE TypeInv'
  BY <1>8 DEF CloseUnregister, CancelReconnect
<1>9. ASSUME NEW p \in Callers, CloseCancel(p) PROVE TypeInv'
  BY <1>9 DEF CloseCancel
<1>10. ASSUME NEW p \in Callers, Take(p) PROVE TypeInv'
  BY <1>10 DEF Take
<1>11. ASSUME NEW p \in Callers, Shut(p) PROVE TypeInv'
  BY <1>11 DEF Shut
<1>12. ASSUME NEW p \in Callers, SetCipherApply(p) PROVE TypeInv'
  BY ZenonT(30), <1>12 DEF SetCipherApply
<1>13. ASSUME NEW p \in Callers, WaitPoll(p) PROVE TypeInv'
  BY <1>13 DEF WaitPoll, IsConnected
<1>14. ASSUME NEW p \in Callers, WaitRecheck(p) PROVE TypeInv'
  BY <1>14 DEF WaitRecheck
<1>15. ASSUME NEW p \in Procs, ConnectEntry(p) PROVE TypeInv'
  BY <1>15 DEF ConnectEntry, ReturnErr, Counted
<1>16. ASSUME NEW p \in Procs, Supersede(p) PROVE TypeInv'
  BY <1>16 DEF Supersede, CancelReconnect
<1>17. ASSUME NEW p \in Procs, ClaimDial(p) PROVE TypeInv'
  <2>1. CASE isConnecting
    BY <1>17, <2>1 DEF ClaimDial, DialBusy, ReturnErr, Counted
  <2>2. CASE ~isConnecting
    BY ZenonT(60), <1>17, <2>2 DEF ClaimDial, DialBusy
  <2> QED
    BY <2>1, <2>2
<1>18. ASSUME NEW p \in Procs, ReadConfig(p) PROVE TypeInv'
  BY <1>18 DEF ReadConfig
<1>19. ASSUME NEW p \in Procs, DialFail(p) PROVE TypeInv'
  <2>1. CASE p \in Loops
    <3>1. /\ isConnecting' = FALSE
          /\ pc' = [pc EXCEPT ![p] = "sleep"]
          /\ attempts' = IF MaxAttempts > 0 THEN [attempts EXCEPT ![p] = @ + 1]
                                              ELSE attempts
      BY <1>19, <2>1 DEF DialFail, ReturnErr, Counted
    <3>2. attempts' \in [Loops -> 0..MaxAttempts]
      BY <1>19, <2>1, <3>1 DEF DialFail
    <3>3. AttemptBudget'
      BY <1>19, <2>1, <3>1 DEF DialFail
    <3> QED
      BY ZenonT(30), <1>19, <2>1, <3>1, <3>2, <3>3 DEF DialFail
  <2>2. CASE p \notin Loops
    BY ZenonT(30), <1>19, <2>2 DEF DialFail, ReturnErr, Counted
  <2> QED
    BY <2>1, <2>2
<1>20. ASSUME NEW p \in Procs, NEW c \in Conns, DialOk(p, c) PROVE TypeInv'
  BY <1>20 DEF DialOk, Fresh
<1>21. ASSUME NEW p \in Procs, Install(p) PROVE TypeInv'
  BY ZenonT(30), <1>21 DEF Install, Replaced
<1>22. ASSUME NEW p \in Procs, Release(p) PROVE TypeInv'
  BY ZenonT(30), <1>22 DEF Release
<1>23. ASSUME NEW l \in Loops, LoopTop(l) PROVE TypeInv'
  BY <1>23 DEF LoopTop, Exhausted, LoopDone
<1>24. ASSUME NEW l \in Loops, LoopPick(l) PROVE TypeInv'
  BY <1>24 DEF LoopPick
<1>25. ASSUME NEW l \in Loops, LoopWake(l) PROVE TypeInv'
  BY <1>25 DEF LoopWake, LoopDone
<1>26. ASSUME NEW l \in Loops, LoopExit(l) PROVE TypeInv'
  BY <1>26 DEF LoopExit
<1>27. ASSUME NEW c \in Conns, ReadCheck(c) PROVE TypeInv'
  BY <1>27 DEF ReadCheck, Shutdown
<1>28. ASSUME NEW c \in Conns, ReadFrame(c) PROVE TypeInv'
  BY <1>28 DEF ReadFrame
<1>29. ASSUME NEW c \in Conns, ReadError(c) PROVE TypeInv'
  BY <1>29 DEF ReadError
<1>30. ASSUME NEW c \in Conns, ReadPush(c) PROVE TypeInv'
  BY <1>30 DEF ReadPush
<1>31. ASSUME NEW c \in Conns, ReadCleanup(c) PROVE TypeInv'
  BY <1>31 DEF ReadCleanup, IsSame
<1>32. ASSUME NEW c \in Conns, ReadClose(c) PROVE TypeInv'
  BY <1>32 DEF ReadClose
<1>33. ASSUME NEW c \in Conns, ReadTrigger(c) PROVE TypeInv'
  BY <1>33 DEF ReadTrigger, StartLoop, NoLoopNeeded, NoStart
<1>34. CASE Consume
  BY <1>34 DEF Consume
<1>35. CASE UNCHANGED vars
  BY <1>35 DEF vars, flags, data, loops, conns, locals, ciphers
<1> QED
  BY ZenonT(30), <1>1, <1>2, <1>3, <1>4, <1>5, <1>6, <1>7, <1>8, <1>9, <1>10, <1>11, <1>12,
     <1>13, <1>14, <1>15, <1>16, <1>17, <1>18, <1>19, <1>20, <1>21, <1>22, <1>23,
     <1>24, <1>25, <1>26, <1>27, <1>28, <1>29, <1>30, <1>31, <1>32, <1>33, <1>34,
     <1>35
     DEF Next, Call, Finish, Connect, ReadLoop, ReconnectLoop, Procs

\* Every field has its type, and no loop counts more than MaxAttempts attempts.
THEOREM TypeCorrect == Spec => []TypeOK
<1>1. Spec => []TypeInv
  BY TypeInit, TypeStep, PTL DEF Spec
<1>2. TypeInv => TypeOK
  BY DEF TypeInv
<1> QED
  BY <1>1, <1>2, PTL

\* The attempt limit is respected although it is tested in one place only.
THEOREM AttemptsBounded == Spec => []AttemptBudget
<1>1. Spec => []TypeInv
  BY TypeInit, TypeStep, PTL DEF Spec
<1>2. TypeInv => AttemptBudget
  BY SMTT(30) DEF TypeInv
<1> QED
  BY <1>1, <1>2, PTL

-----------------------------------------------------------------------------
(* The isConnecting flag.  OneDial is inductive given the types.           *)

\* The flag and the goroutines past the compare-and-swap change together.
LEMMA DialExclusionStep == TypeInv /\ OneDial /\ [Next]_vars => OneDial'
<1> SUFFICES ASSUME TypeInv, OneDial, [Next]_vars PROVE OneDial'
  BY SMTT(30)
<1> USE ConnectorAssumption DEF TypeInv, TypeOK, Procs, OneDial, Dialing, Goto,
       flags, data, loops, conns, locals, ciphers
<1>1. ASSUME NEW p \in Callers, NEW e \in Endpoints, CallConnect(p, e) PROVE OneDial'
  BY <1>1 DEF CallConnect
<1>2. ASSUME NEW p \in Callers, Disconnect(p) PROVE OneDial'
  BY <1>2 DEF Disconnect, CancelReconnect
<1>3. ASSUME NEW p \in Callers, Close(p) PROVE OneDial'
  BY <1>3 DEF Close
<1>4. ASSUME NEW p \in Callers, TriggerReconnect(p) PROVE OneDial'
  BY <1>4 DEF TriggerReconnect, StartLoop, NoLoopNeeded
<1>5. ASSUME NEW p \in Callers, NEW k \in Ciphers, SetCipher(p, k) PROVE OneDial'
  BY <1>5 DEF SetCipher
<1>6. ASSUME NEW p \in Callers, NEW pool \in Pools, UpdateEndpoints(p, pool)
      PROVE OneDial'
  BY <1>6 DEF UpdateEndpoints
<1>7. ASSUME NEW p \in Callers, WaitForConnection(p) PROVE OneDial'
  BY <1>7 DEF WaitForConnection, IsConnected
<1>8. ASSUME NEW p \in Callers, CloseUnregister(p) PROVE OneDial'
  BY <1>8 DEF CloseUnregister, CancelReconnect
<1>9. ASSUME NEW p \in Callers, CloseCancel(p) PROVE OneDial'
  BY <1>9 DEF CloseCancel
<1>10. ASSUME NEW p \in Callers, Take(p) PROVE OneDial'
  BY <1>10 DEF Take
<1>11. ASSUME NEW p \in Callers, Shut(p) PROVE OneDial'
  BY <1>11 DEF Shut
<1>12. ASSUME NEW p \in Callers, SetCipherApply(p) PROVE OneDial'
  BY <1>12 DEF SetCipherApply
<1>13. ASSUME NEW p \in Callers, WaitPoll(p) PROVE OneDial'
  BY <1>13 DEF WaitPoll, IsConnected
<1>14. ASSUME NEW p \in Callers, WaitRecheck(p) PROVE OneDial'
  BY <1>14 DEF WaitRecheck
<1>15. ASSUME NEW p \in Procs, ConnectEntry(p) PROVE OneDial'
  BY <1>15 DEF ConnectEntry, ReturnErr, Counted
<1>16. ASSUME NEW p \in Procs, Supersede(p) PROVE OneDial'
  BY <1>16 DEF Supersede, CancelReconnect
<1>17. ASSUME NEW p \in Procs, ClaimDial(p) PROVE OneDial'
  BY <1>17 DEF ClaimDial, DialBusy, ReturnErr, Counted
<1>18. ASSUME NEW p \in Procs, ReadConfig(p) PROVE OneDial'
  BY <1>18 DEF ReadConfig
<1>19. ASSUME NEW p \in Procs, DialFail(p) PROVE OneDial'
  BY <1>19 DEF DialFail, ReturnErr, Counted
<1>20. ASSUME NEW p \in Procs, NEW c \in Conns, DialOk(p, c) PROVE OneDial'
  BY <1>20 DEF DialOk, Fresh
<1>21. ASSUME NEW p \in Procs, Install(p) PROVE OneDial'
  BY <1>21 DEF Install, Replaced
<1>22. ASSUME NEW p \in Procs, Release(p) PROVE OneDial'
  BY <1>22 DEF Release
<1>23. ASSUME NEW l \in Loops, LoopTop(l) PROVE OneDial'
  BY <1>23 DEF LoopTop, Exhausted, LoopDone
<1>24. ASSUME NEW l \in Loops, LoopPick(l) PROVE OneDial'
  BY <1>24 DEF LoopPick
<1>25. ASSUME NEW l \in Loops, LoopWake(l) PROVE OneDial'
  BY <1>25 DEF LoopWake, LoopDone
<1>26. ASSUME NEW l \in Loops, LoopExit(l) PROVE OneDial'
  BY <1>26 DEF LoopExit
<1>27. ASSUME NEW c \in Conns, ReadCheck(c) PROVE OneDial'
  BY <1>27 DEF ReadCheck, Shutdown
<1>28. ASSUME NEW c \in Conns, ReadFrame(c) PROVE OneDial'
  BY <1>28 DEF ReadFrame
<1>29. ASSUME NEW c \in Conns, ReadError(c) PROVE OneDial'
  BY <1>29 DEF ReadError
<1>30. ASSUME NEW c \in Conns, ReadPush(c) PROVE OneDial'
  BY <1>30 DEF ReadPush
<1>31. ASSUME NEW c \in Conns, ReadCleanup(c) PROVE OneDial'
  BY <1>31 DEF ReadCleanup, IsSame
<1>32. ASSUME NEW c \in Conns, ReadClose(c) PROVE OneDial'
  BY <1>32 DEF ReadClose
<1>33. ASSUME NEW c \in Conns, ReadTrigger(c) PROVE OneDial'
  BY <1>33 DEF ReadTrigger, StartLoop, NoLoopNeeded, NoStart
<1>34. CASE Consume
  BY <1>34 DEF Consume
<1>35. CASE UNCHANGED vars
  BY <1>35 DEF vars, flags, data, loops, conns, locals, ciphers
<1> QED
  BY ZenonT(30), <1>1, <1>2, <1>3, <1>4, <1>5, <1>6, <1>7, <1>8, <1>9, <1>10, <1>11, <1>12,
     <1>13, <1>14, <1>15, <1>16, <1>17, <1>18, <1>19, <1>20, <1>21, <1>22, <1>23,
     <1>24, <1>25, <1>26, <1>27, <1>28, <1>29, <1>30, <1>31, <1>32, <1>33, <1>34,
     <1>35
     DEF Next, Call, Finish, Connect, ReadLoop, ReconnectLoop, Procs

\* At most one Connect is past the compare-and-swap of isConnecting, and the
\* flag is set exactly while one is.
THEOREM DialExclusion == Spec => []OneDial
<1>1. Init => OneDial
  BY ZenonT(30), ConnectorAssumption DEF Init, OneDial, Dialing, Procs
<1>2. Spec => []OneDial
  BY <1>1, TypeInit, TypeStep, DialExclusionStep, PTL DEF Spec
<1> QED
  BY <1>2, PTL

-----------------------------------------------------------------------------
(* The registration of reconnect loops.  LoopRegistered is not inductive:  *)
(* a loop identity must come back with a context that is not cancelled.    *)

RegInv == LoopRegistered /\ \A l \in cancelled : pc[l] # "free"

\* cancelReconnect, triggerReconnect and the deferred call of reconnectLoop keep
\* the registration in step with the loops.
LEMMA RegistrationStep == TypeInv /\ RegInv /\ [Next]_vars => RegInv'
<1> SUFFICES ASSUME TypeInv, RegInv, [Next]_vars PROVE RegInv'
  OBVIOUS
<1> USE ConnectorAssumption DEF TypeInv, TypeOK, Procs, RegInv, LoopRegistered,
       Goto, flags, data, loops, conns, locals, ciphers
<1>1. ASSUME NEW p \in Callers, NEW e \in Endpoints, CallConnect(p, e) PROVE RegInv'
  BY <1>1 DEF CallConnect
<1>2. ASSUME NEW p \in Callers, Disconnect(p) PROVE RegInv'
  BY <1>2 DEF Disconnect, CancelReconnect
<1>3. ASSUME NEW p \in Callers, Close(p) PROVE RegInv'
  BY <1>3 DEF Close
<1>4. ASSUME NEW p \in Callers, TriggerReconnect(p) PROVE RegInv'
  BY <1>4 DEF TriggerReconnect, StartLoop, NoLoopNeeded
<1>5. ASSUME NEW p \in Callers, NEW k \in Ciphers, SetCipher(p, k) PROVE RegInv'
  BY <1>5 DEF SetCipher
<1>6. ASSUME NEW p \in Callers, NEW pool \in Pools, UpdateEndpoints(p, pool)
      PROVE RegInv'
  BY <1>6 DEF UpdateEndpoints
<1>7. ASSUME NEW p \in Callers, WaitForConnection(p) PROVE RegInv'
  BY <1>7 DEF WaitForConnection, IsConnected
<1>8. ASSUME NEW p \in Callers, CloseUnregister(p) PROVE RegInv'
  BY <1>8 DEF CloseUnregister, CancelReconnect
<1>9. ASSUME NEW p \in Callers, CloseCancel(p) PROVE RegInv'
  BY <1>9 DEF CloseCancel
<1>10. ASSUME NEW p \in Callers, Take(p) PROVE RegInv'
  BY <1>10 DEF Take
<1>11. ASSUME NEW p \in Callers, Shut(p) PROVE RegInv'
  BY <1>11 DEF Shut
<1>12. ASSUME NEW p \in Callers, SetCipherApply(p) PROVE RegInv'
  BY <1>12 DEF SetCipherApply
<1>13. ASSUME NEW p \in Callers, WaitPoll(p) PROVE RegInv'
  BY <1>13 DEF WaitPoll, IsConnected
<1>14. ASSUME NEW p \in Callers, WaitRecheck(p) PROVE RegInv'
  BY <1>14 DEF WaitRecheck
<1>15. ASSUME NEW p \in Procs, ConnectEntry(p) PROVE RegInv'
  BY <1>15 DEF ConnectEntry, ReturnErr, Counted
<1>16. ASSUME NEW p \in Procs, Supersede(p) PROVE RegInv'
  BY <1>16 DEF Supersede, CancelReconnect
<1>17. ASSUME NEW p \in Procs, ClaimDial(p) PROVE RegInv'
  BY <1>17 DEF ClaimDial, DialBusy, ReturnErr, Counted
<1>18. ASSUME NEW p \in Procs, ReadConfig(p) PROVE RegInv'
  BY <1>18 DEF ReadConfig
<1>19. ASSUME NEW p \in Procs, DialFail(p) PROVE RegInv'
  BY <1>19 DEF DialFail, ReturnErr, Counted
<1>20. ASSUME NEW p \in Procs, NEW c \in Conns, DialOk(p, c) PROVE RegInv'
  BY <1>20 DEF DialOk, Fresh
<1>21. ASSUME NEW p \in Procs, Install(p) PROVE RegInv'
  BY <1>21 DEF Install, Replaced
<1>22. ASSUME NEW p \in Procs, Release(p) PROVE RegInv'
  BY <1>22 DEF Release
<1>23. ASSUME NEW l \in Loops, LoopTop(l) PROVE RegInv'
  BY <1>23 DEF LoopTop, Exhausted, LoopDone
<1>24. ASSUME NEW l \in Loops, LoopPick(l) PROVE RegInv'
  BY <1>24 DEF LoopPick
<1>25. ASSUME NEW l \in Loops, LoopWake(l) PROVE RegInv'
  BY <1>25 DEF LoopWake, LoopDone
<1>26. ASSUME NEW l \in Loops, LoopExit(l) PROVE RegInv'
  BY <1>26 DEF LoopExit
<1>27. ASSUME NEW c \in Conns, ReadCheck(c) PROVE RegInv'
  BY <1>27 DEF ReadCheck, Shutdown
<1>28. ASSUME NEW c \in Conns, ReadFrame(c) PROVE RegInv'
  BY <1>28 DEF ReadFrame
<1>29. ASSUME NEW c \in Conns, ReadError(c) PROVE RegInv'
  BY <1>29 DEF ReadError
<1>30. ASSUME NEW c \in Conns, ReadPush(c) PROVE RegInv'
  BY <1>30 DEF ReadPush
<1>31. ASSUME NEW c \in Conns, ReadCleanup(c) PROVE RegInv'
  BY <1>31 DEF ReadCleanup, IsSame
<1>32. ASSUME NEW c \in Conns, ReadClose(c) PROVE RegInv'
  BY <1>32 DEF ReadClose
<1>33. ASSUME NEW c \in Conns, ReadTrigger(c) PROVE RegInv'
  BY <1>33 DEF ReadTrigger, StartLoop, NoLoopNeeded, NoStart
<1>34. CASE Consume
  BY <1>34 DEF Consume
<1>35. CASE UNCHANGED vars
  BY <1>35 DEF vars, flags, data, loops, conns, locals, ciphers
<1> QED
  BY ZenonT(30), <1>1, <1>2, <1>3, <1>4, <1>5, <1>6, <1>7, <1>8, <1>9, <1>10, <1>11, <1>12,
     <1>13, <1>14, <1>15, <1>16, <1>17, <1>18, <1>19, <1>20, <1>21, <1>22, <1>23,
     <1>24, <1>25, <1>26, <1>27, <1>28, <1>29, <1>30, <1>31, <1>32, <1>33, <1>34,
     <1>35
     DEF Next, Call, Finish, Connect, ReadLoop, ReconnectLoop, Procs

\* c.reconnectCancel belongs to a loop exactly while it runs uncancelled.
THEOREM Registration == Spec => []LoopRegistered
<1>1. Init => RegInv
  BY ConnectorAssumption DEF Init, RegInv, LoopRegistered, Procs
<1>2. Spec => []RegInv
  BY <1>1, TypeInit, TypeStep, RegistrationStep, PTL DEF Spec
<1>3. RegInv => LoopRegistered
  BY DEF RegInv
<1> QED
  BY <1>2, <1>3, PTL

-----------------------------------------------------------------------------
(* The ownership of connections.  A goroutine that is going to install or  *)
(* close a connection holds one, and a connection leaves c.conn with its   *)
(* readLoop still in front of the deferred function.                       *)

OwnInv ==
    /\ UniqueOwner /\ ReaderAttached
    /\ \A p \in Procs : pc[p] \in {"install", "shut", "apply"} => held[p] # NoConn

\* Dialling, installing, taking and closing hand the one ownership over.
LEMMA OwnershipStep == TypeInv /\ OwnInv /\ [Next]_vars => OwnInv'
<1> SUFFICES ASSUME TypeInv, OwnInv, [Next]_vars PROVE OwnInv'
  BY SMTT(30)
<1> USE ConnectorAssumption DEF TypeInv, TypeOK, Procs, OwnInv, UniqueOwner, Holds,
       ReaderAttached, Goto, flags, data, loops, conns, locals, ciphers
<1>1. ASSUME NEW p \in Callers, NEW e \in Endpoints, CallConnect(p, e) PROVE OwnInv'
  BY <1>1 DEF CallConnect
<1>2. ASSUME NEW p \in Callers, Disconnect(p) PROVE OwnInv'
  BY SMTT(30), <1>2 DEF Disconnect, CancelReconnect
<1>3. ASSUME NEW p \in Callers, Close(p) PROVE OwnInv'
  BY SMTT(30), <1>3 DEF Close
<1>4. ASSUME NEW p \in Callers, TriggerReconnect(p) PROVE OwnInv'
  BY SMTT(30), <1>4 DEF TriggerReconnect, StartLoop, NoLoopNeeded
<1>5. ASSUME NEW p \in Callers, NEW k \in Ciphers, SetCipher(p, k) PROVE OwnInv'
  BY SMTT(30), <1>5 DEF SetCipher
<1>6. ASSUME NEW p \in Callers, NEW pool \in Pools, UpdateEndpoints(p, pool)
      PROVE OwnInv'
  BY SMTT(30), <1>6 DEF UpdateEndpoints
<1>7. ASSUME NEW p \in Callers, WaitForConnection(p) PROVE OwnInv'
  BY <1>7 DEF WaitForConnection, IsConnected
<1>8. ASSUME NEW p \in Callers, CloseUnregister(p) PROVE OwnInv'
  BY <1>8 DEF CloseUnregister, CancelReconnect
<1>9. ASSUME NEW p \in Callers, CloseCancel(p) PROVE OwnInv'
  BY SMTT(30), <1>9 DEF CloseCancel
<1>10. ASSUME NEW p \in Callers, Take(p) PROVE OwnInv'
  BY SMTT(30), <1>10 DEF Take
<1>11. ASSUME NEW p \in Callers, Shut(p) PROVE OwnInv'
  BY SMTT(30), <1>11 DEF Shut
<1>12. ASSUME NEW p \in Callers, SetCipherApply(p) PROVE OwnInv'
  BY SMTT(30), <1>12 DEF SetCipherApply
<1>13. ASSUME NEW p \in Callers, WaitPoll(p) PROVE OwnInv'
  BY SMTT(30), <1>13 DEF WaitPoll, IsConnected
<1>14. ASSUME NEW p \in Callers, WaitRecheck(p) PROVE OwnInv'
  BY SMTT(30), <1>14 DEF WaitRecheck
<1>15. ASSUME NEW p \in Procs, ConnectEntry(p) PROVE OwnInv'
  BY SMTT(30), <1>15 DEF ConnectEntry, ReturnErr, Counted
<1>16. ASSUME NEW p \in Procs, Supersede(p) PROVE OwnInv'
  BY SMTT(30), <1>16 DEF Supersede, CancelReconnect
<1>17. ASSUME NEW p \in Procs, ClaimDial(p) PROVE OwnInv'
  BY SMTT(30), <1>17 DEF ClaimDial, DialBusy, ReturnErr, Counted
<1>18. ASSUME NEW p \in Procs, ReadConfig(p) PROVE OwnInv'
  BY SMTT(30), <1>18 DEF ReadConfig
<1>19. ASSUME NEW p \in Procs, DialFail(p) PROVE OwnInv'
  BY SMTT(30), <1>19 DEF DialFail, ReturnErr, Counted
<1>20. ASSUME NEW p \in Procs, NEW c \in Conns, DialOk(p, c) PROVE OwnInv'
  BY SMTT(30), <1>20 DEF DialOk, Fresh
<1>21. ASSUME NEW p \in Procs, Install(p) PROVE OwnInv'
  BY SMTT(30), <1>21 DEF Install, Replaced
<1>22. ASSUME NEW p \in Procs, Release(p) PROVE OwnInv'
  BY SMTT(30), <1>22 DEF Release
<1>23. ASSUME NEW l \in Loops, LoopTop(l) PROVE OwnInv'
  BY SMTT(30), <1>23 DEF LoopTop, Exhausted, LoopDone
<1>24. ASSUME NEW l \in Loops, LoopPick(l) PROVE OwnInv'
  BY SMTT(30), <1>24 DEF LoopPick
<1>25. ASSUME NEW l \in Loops, LoopWake(l) PROVE OwnInv'
  BY SMTT(30), <1>25 DEF LoopWake, LoopDone
<1>26. ASSUME NEW l \in Loops, LoopExit(l) PROVE OwnInv'
  BY SMTT(30), <1>26 DEF LoopExit
<1>27. ASSUME NEW c \in Conns, ReadCheck(c) PROVE OwnInv'
  BY SMTT(30), <1>27 DEF ReadCheck, Shutdown
<1>28. ASSUME NEW c \in Conns, ReadFrame(c) PROVE OwnInv'
  BY SMTT(30), <1>28 DEF ReadFrame
<1>29. ASSUME NEW c \in Conns, ReadError(c) PROVE OwnInv'
  BY SMTT(30), <1>29 DEF ReadError
<1>30. ASSUME NEW c \in Conns, ReadPush(c) PROVE OwnInv'
  BY SMTT(30), <1>30 DEF ReadPush
<1>31. ASSUME NEW c \in Conns, ReadCleanup(c) PROVE OwnInv'
  BY SMTT(30), <1>31 DEF ReadCleanup, IsSame
<1>32. ASSUME NEW c \in Conns, ReadClose(c) PROVE OwnInv'
  BY SMTT(30), <1>32 DEF ReadClose
<1>33. ASSUME NEW c \in Conns, ReadTrigger(c) PROVE OwnInv'
  BY SMTT(30), <1>33 DEF ReadTrigger, StartLoop, NoLoopNeeded, NoStart
<1>34. CASE Consume
  BY SMTT(30), <1>34 DEF Consume
<1>35. CASE UNCHANGED vars
  BY <1>35 DEF vars, flags, data, loops, conns, locals, ciphers
<1> QED
  BY ZenonT(60), <1>1, <1>2, <1>3, <1>4, <1>5, <1>6, <1>7, <1>8, <1>9, <1>10, <1>11, <1>12,
     <1>13, <1>14, <1>15, <1>16, <1>17, <1>18, <1>19, <1>20, <1>21, <1>22, <1>23,
     <1>24, <1>25, <1>26, <1>27, <1>28, <1>29, <1>30, <1>31, <1>32, <1>33, <1>34,
     <1>35
     DEF Next, Call, Finish, Connect, ReadLoop, ReconnectLoop, Procs

\* The ownership invariant holds at first, with no connection at all, and for ever.
LEMMA OwnershipAlways == Spec => [](TypeInv /\ OwnInv)
<1>1. ASSUME Init PROVE OwnInv
  <2>1. \A p \in Procs : pc[p] \notin {"install", "shut", "apply"}
    BY <1>1 DEF Init
  <2>2. open = {} /\ conn = NoConn /\ \A c \in Conns : rl[c] # "close" /\ c # NoConn
    BY <1>1, ConnectorAssumption DEF Init
  <2> QED
    BY <2>1, <2>2 DEF OwnInv, UniqueOwner, Holds, ReaderAttached
<1> QED
  BY <1>1, TypeInit, TypeStep, OwnershipStep, PTL DEF Spec

\* Every connection has one owner while it is open and none once it is closed.
THEOREM Ownership == Spec => []UniqueOwner
<1>1. OwnInv => UniqueOwner
  BY DEF OwnInv
<1> QED
  BY <1>1, OwnershipAlways, PTL

\* The current connection has a readLoop that will notice its failure.
THEOREM Attachment == Spec => []ReaderAttached
<1>1. OwnInv => ReaderAttached
  BY SMTT(30) DEF OwnInv
<1> QED
  BY <1>1, OwnershipAlways, PTL

-----------------------------------------------------------------------------
(* Refinement of the abstract connection slot.                             *)

\* Every step of the connector is a step of the slot or changes neither c.conn
\* nor the set of open connections.
LEMMA SlotStep == TypeInv /\ OwnInv /\ [Next]_vars => [Slot!Next]_(Slot!vars)
<1> SUFFICES ASSUME TypeInv, OwnInv, [Next]_vars PROVE [Slot!Next]_(Slot!vars)
  BY SMTT(30)
<1> USE DEF Slot!vars, flags, data, loops, conns, locals, ciphers
<1>1. ASSUME NEW p \in Callers, Call(p) PROVE UNCHANGED Slot!vars
  BY ZenonT(30), <1>1 DEF Call, CallConnect, Disconnect, Close, TriggerReconnect, SetCipher,
         UpdateEndpoints, WaitForConnection
<1>2. ASSUME NEW p \in Callers,
             \/ CloseUnregister(p) \/ CloseCancel(p) \/ SetCipherApply(p)
             \/ WaitPoll(p) \/ WaitRecheck(p)
      PROVE UNCHANGED Slot!vars
  BY SMTT(30), <1>2 DEF CloseUnregister, CloseCancel, SetCipherApply, WaitPoll, WaitRecheck
<1>3. ASSUME NEW p \in Procs,
             \/ ConnectEntry(p) \/ Supersede(p) \/ ClaimDial(p) \/ ReadConfig(p)
             \/ DialFail(p) \/ Release(p)
      PROVE UNCHANGED Slot!vars
  BY SMTT(30), <1>3 DEF ConnectEntry, Supersede, ClaimDial, ReadConfig, DialFail, Release
<1>4. ASSUME NEW l \in Loops, ReconnectLoop(l) PROVE UNCHANGED Slot!vars
  BY SMTT(30), <1>4 DEF ReconnectLoop, LoopTop, LoopPick, LoopWake, LoopExit
<1>5. ASSUME NEW c \in Conns,
             \/ ReadCheck(c) \/ ReadFrame(c) \/ ReadError(c) \/ ReadPush(c)
             \/ ReadTrigger(c)
      PROVE UNCHANGED Slot!vars
  BY <1>5 DEF ReadCheck, ReadFrame, ReadError, ReadPush, ReadTrigger
<1>6. ASSUME NEW p \in Callers, Take(p) PROVE [Slot!Next]_(Slot!vars)
  BY SMTT(30), <1>6 DEF Take, Slot!Next, Slot!Leave
<1>7. ASSUME NEW p \in Callers, Shut(p) PROVE [Slot!Next]_(Slot!vars)
  BY SMTT(30), <1>7, ConnectorAssumption
     DEF Shut, TypeInv, TypeOK, OwnInv, UniqueOwner, Holds, Procs, Slot!Next,
         Slot!Retire
<1>8. ASSUME NEW p \in Procs, NEW c \in Conns, DialOk(p, c)
      PROVE [Slot!Next]_(Slot!vars)
  BY SMTT(30), <1>8, ConnectorAssumption
     DEF DialOk, Fresh, TypeInv, TypeOK, OwnInv, UniqueOwner, Holds, Procs,
         Slot!Next, Slot!Dial
<1>9. ASSUME NEW p \in Procs, Install(p) PROVE [Slot!Next]_(Slot!vars)
  BY <1>9, ConnectorAssumption
     DEF Install, Replaced, TypeInv, TypeOK, OwnInv, UniqueOwner, Holds, Procs,
         Slot!Next, Slot!Enter
<1>10. ASSUME NEW c \in Conns, ReadCleanup(c) PROVE [Slot!Next]_(Slot!vars)
  BY SMTT(30), <1>10, ConnectorAssumption DEF ReadCleanup, IsSame, Slot!Next, Slot!Leave
<1>11. ASSUME NEW c \in Conns, ReadClose(c) PROVE [Slot!Next]_(Slot!vars)
  BY <1>11, ConnectorAssumption
     DEF ReadClose, TypeInv, TypeOK, OwnInv, UniqueOwner, Holds, Procs, Slot!Next,
         Slot!Retire
<1>12. Consume \/ UNCHANGED vars => UNCHANGED Slot!vars
  BY DEF Consume, vars
<1> QED
  BY <1>1, <1>2, <1>3, <1>4, <1>5, <1>6, <1>7, <1>8, <1>9, <1>10, <1>11, <1>12
     DEF Next, Finish, Connect, ReadLoop, Procs

\* The connector implements the abstract slot: one current connection at a
\* time, replaced and retired in one step, never closed while current.
THEOREM SlotRefinement == Spec => SlotSafety
<1>1. Init => Slot!Init
  BY DEF Init, Slot!Init
<1>2. Spec => [][Slot!Next]_(Slot!vars)
  BY OwnershipAlways, SlotStep, PTL DEF Spec
<1> QED
  BY <1>1, <1>2, PTL DEF Spec, SlotSafety, Slot!Safety
=============================================================================
