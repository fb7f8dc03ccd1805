------------------------ MODULE TimingRuntime_proofs ------------------------
(***************************************************************************)
(* Invariance and refinement proofs of the timing service, for every set   *)
(* of ids, every queue depth and every bound of the environment.           *)
(***************************************************************************)
EXTENDS TimingRuntime, TLAPS

\* The stop path of the runner task, in the order it is walked.
Quieting == {"stoptimer", "barrier", "await", "access", "exit", "exited"}
StopPath == {"stopdrain", "stopapply", "quiesce"} \cup Quieting

\* The destroying thread's flags, and what the runner task knows of them.
LifeInv ==
    /\ accepting <=> spc = "idle"
    /\ stopping <=> spc \in {"flagged", "waiting", "done"}
    /\ submitting => accepting
    /\ rpc \in StopPath => stopping
    /\ stopped => rpc = "exited"
    /\ spc = "done" => rpc = "exited"

\* One callback at a time, and only while the runner task is in it.
ActiveInv ==
    /\ rpc = "callback" <=> active # NoTask
    /\ \A i \in Ids : status[i] = "executing" <=> active = i

\* Where an accepted command can be.
TransitInv ==
    /\ accepted = applied + Len(queue) + Len(commands)
    /\ rpc \in StopPath \ {"stopdrain"} => queue = <<>>
    /\ rpc \in {"quiesce"} \cup Quieting => commands = <<>>
    /\ rpc \in {"take", "check", "batch", "callback", "arm"}
          => commands = <<>> \/ stopping
    /\ rpc \in {"loop", "clock", "commands", "batch", "callback", "arm", "take"}
          => queue = <<>> \/ notified \/ submitting \/ stopping

\* The barrier of ClearExpiryCallbackAndWait.
BarrierInv ==
    /\ quiescing <=> rpc \in Quieting
    /\ ~bound => rpc \in {"exit", "exited"}
    /\ accessing <=> tpc \notin {"idle", "dispatched"}
    /\ barrier => rpc = "await"
    /\ tpc = "give" => rpc = "await"
    /\ rpc = "barrier" => armed = Off /\ ~quiesced
    /\ rpc = "await" /\ barrier => ~quiesced /\ tpc # "give"
    /\ rpc = "await" /\ ~barrier =>
          /\ armed = Off
          /\ IF quiesced THEN tpc \in {"leave", "idle"} ELSE tpc = "give"
    /\ rpc = "access" => armed = Off /\ tpc \in {"leave", "idle"}
    /\ rpc \in {"exit", "exited"} => armed = Off /\ tpc = "idle"

\* A sleeping runner task with pending tasks has an expiry to come.
ArmedInv ==
    rpc = "take" /\ ~notified /\ ~stopping /\ Pending # {}
        => armed # Off \/ ExpiryUnderWay

IInv == TypeOK /\ LifeInv /\ ActiveInv /\ TransitInv /\ BarrierInv /\ ArmedInv

\* While SNTP has not moved the wall clock: until the runner task reads the
\* clock again, the timer is armed for the earliest pending task or for an
\* earlier instant.
EarlyInv ==
    clockSteps = 0 /\ rpc \in {"take", "check", "drain", "loop", "clock"}
        => \A i \in Pending : armed <= Delay(trigger[i])

-----------------------------------------------------------------------------
\* A command names an id and an instant.
LEMMA CommandFields ==
    \A c \in Commands : c.id \in Ids /\ c.at \in Times
BY BoundsAssumption DEF Commands, Times

\* Every step keeps the flags Boolean.
LEMMA FlagsStep == FlagsOK /\ [Next]_vars => FlagsOK'
<1> SUFFICES ASSUME FlagsOK, [Next]_vars PROVE FlagsOK'
  OBVIOUS
<1> USE DEF FlagsOK, registry, timer, life, history, spent
<1>1. ASSUME NEW cmd \in Commands, EnqueueSend(cmd) PROVE FlagsOK'
BY <1>1, Zenon DEF EnqueueSend
<1>2. ASSUME NEW cmd \in Commands, CallbackCommand(cmd) PROVE FlagsOK'
BY <1>2, Zenon DEF CallbackCommand, Apply, ApplyRegisterTask, ApplyCancelTask
<1>3. CASE EnqueueNotify
BY <1>3, Zenon DEF EnqueueNotify
<1>4. CASE Take
BY <1>4, Zenon DEF Take
<1>5. CASE Check
BY <1>5, Zenon DEF Check
<1>6. CASE DrainCommand
BY <1>6, Zenon DEF DrainCommand
<1>7. CASE DrainDone
BY <1>7, Zenon DEF DrainDone
<1>8. CASE Loop
BY <1>8, Zenon DEF Loop
<1>9. CASE ReadClock
BY <1>9, Zenon DEF ReadClock
<1>10. CASE ProcessPendingCommand
BY <1>10, Zenon DEF ProcessPendingCommand, Apply, ApplyRegisterTask,
     ApplyCancelTask
<1>11. CASE SnapshotDue
BY <1>11, Zenon DEF SnapshotDue
<1>12. CASE BeginDue
BY <1>12, Zenon DEF BeginDue
<1>13. CASE CallbackDone
BY <1>13, Zenon DEF CallbackDone
<1>14. CASE BatchDone
BY <1>14, Zenon DEF BatchDone
<1>15. CASE Disarm
BY <1>15, Zenon DEF Disarm
<1>16. CASE ArmAfter
BY <1>16, Zenon DEF ArmAfter
<1>17. CASE StopApplied
BY <1>17, Zenon DEF StopApplied
<1>18. CASE Quiesce
BY <1>18, Zenon DEF Quiesce
<1>19. CASE StopTimer
BY <1>19, Zenon DEF StopTimer
<1>20. CASE ArmBarrier
BY <1>20, Zenon DEF ArmBarrier
<1>21. CASE AwaitBarrier
BY <1>21, Zenon DEF AwaitBarrier
<1>22. CASE DropCallback
BY <1>22, Zenon DEF DropCallback
<1>23. CASE Exit
BY <1>23, Zenon DEF Exit
<1>24. CASE ArmUnavailable
BY <1>24, Zenon DEF ArmUnavailable
<1>25. CASE Expire
BY <1>25, Zenon DEF Expire
<1>26. CASE EnterOwner
BY <1>26, Zenon DEF EnterOwner
<1>27. CASE LoadQuiescing
BY <1>27, Zenon DEF LoadQuiescing
<1>28. CASE ExpiryCallback
BY <1>28, Zenon DEF ExpiryCallback
<1>29. CASE CompleteBarrier
BY <1>29, Zenon DEF CompleteBarrier
<1>30. CASE GiveQuiesced
BY <1>30, Zenon DEF GiveQuiesced
<1>31. CASE LeaveOwner
BY <1>31, Zenon DEF LeaveOwner
<1>32. CASE StopClose
BY <1>32, Zenon DEF StopClose
<1>33. CASE StopFlag
BY <1>33, Zenon DEF StopFlag
<1>34. CASE StopNotify
BY <1>34, Zenon DEF StopNotify
<1>35. CASE StopFinish
BY <1>35, Zenon DEF StopFinish
<1>36. CASE Tick
BY <1>36, Zenon DEF Tick
<1>37. ASSUME NEW t \in Times, SetClock(t) PROVE FlagsOK'
BY <1>37, Zenon DEF SetClock
<1>38. CASE UNCHANGED vars
BY <1>38, Zenon DEF vars
<1> QED
  BY <1>1, <1>2, <1>3, <1>4, <1>5, <1>6, <1>7, <1>8, <1>9, <1>10,
     <1>11, <1>12, <1>13, <1>14, <1>15, <1>16, <1>17, <1>18, <1>19, <1>20,
     <1>21, <1>22, <1>23, <1>24, <1>25, <1>26, <1>27, <1>28, <1>29, <1>30,
     <1>31, <1>32, <1>33, <1>34, <1>35, <1>36, <1>37, <1>38 DEF Next,
     RunnerStep, TimerStep, StopStep

\* Every step keeps the other variables in their types.
LEMMA StateStep == StateOK /\ [Next]_vars => StateOK'
<1> SUFFICES ASSUME StateOK, [Next]_vars PROVE StateOK'
  OBVIOUS
<1> USE IdsAssumption, BoundsAssumption DEF StateOK, Off, NoTask, RunnerPCs,
      TimerPCs, StopPCs, registry, timer, life, history, spent
<1>1. ASSUME NEW cmd \in Commands, EnqueueSend(cmd) PROVE StateOK'
BY <1>1 DEF EnqueueSend
<1>2. ASSUME NEW cmd \in Commands, CallbackCommand(cmd) PROVE StateOK'
BY <1>2, CommandFields DEF CallbackCommand, Apply, ApplyRegisterTask,
     ApplyCancelTask
<1>3. CASE EnqueueNotify
BY <1>3 DEF EnqueueNotify
<1>4. CASE Take
BY <1>4 DEF Take
<1>5. CASE Check
BY <1>5 DEF Check
<1>6. CASE DrainCommand
BY <1>6 DEF DrainCommand
<1>7. CASE DrainDone
BY <1>7 DEF DrainDone
<1>8. CASE Loop
BY <1>8 DEF Loop
<1>9. CASE ReadClock
BY <1>9 DEF ReadClock
<1>10. CASE ProcessPendingCommand
  <2>1. Head(commands) \in Commands /\ Tail(commands) \in Seq(Commands)
    BY <1>10 DEF ProcessPendingCommand
  <2>2. Head(commands).id \in Ids /\ Head(commands).at \in Times
    BY <2>1, CommandFields
  <2>3. Apply(Head(commands))
    BY <1>10 DEF ProcessPendingCommand
  <2>4. /\ status' \in [Ids -> {"unused", "pending", "executing", "cancelled",
                               "completed"}]
        /\ trigger' \in [Ids -> Times]
    <3> HIDE DEF registry
    <3> QED
      BY <2>2, <2>3 DEF Apply, ApplyRegisterTask, ApplyCancelTask
  <2> QED
    BY <1>10, <2>1, <2>4 DEF ProcessPendingCommand
<1>11. CASE SnapshotDue
BY <1>11 DEF SnapshotDue, Pending
<1>12. CASE BeginDue
BY <1>12 DEF BeginDue, IsFirst
<1>13. CASE CallbackDone
BY <1>13 DEF CallbackDone
<1>14. CASE BatchDone
BY <1>14 DEF BatchDone
<1>15. CASE Disarm
BY <1>15 DEF Disarm
<1>16. CASE ArmAfter
BY <1>16 DEF ArmAfter, Delay, Times, Pending
<1>17. CASE StopApplied
BY <1>17 DEF StopApplied
<1>18. CASE Quiesce
BY <1>18 DEF Quiesce
<1>19. CASE StopTimer
BY <1>19 DEF StopTimer
<1>20. CASE ArmBarrier
BY <1>20 DEF ArmBarrier
<1>21. CASE AwaitBarrier
BY <1>21 DEF AwaitBarrier
<1>22. CASE DropCallback
BY <1>22 DEF DropCallback
<1>23. CASE Exit
BY <1>23 DEF Exit
<1>24. CASE ArmUnavailable
BY <1>24 DEF ArmUnavailable
<1>25. CASE Expire
BY <1>25 DEF Expire
<1>26. CASE EnterOwner
BY <1>26 DEF EnterOwner
<1>27. CASE LoadQuiescing
BY <1>27 DEF LoadQuiescing
<1>28. CASE ExpiryCallback
BY <1>28 DEF ExpiryCallback
<1>29. CASE CompleteBarrier
BY <1>29 DEF CompleteBarrier
<1>30. CASE GiveQuiesced
BY <1>30 DEF GiveQuiesced
<1>31. CASE LeaveOwner
BY <1>31 DEF LeaveOwner
<1>32. CASE StopClose
BY <1>32 DEF StopClose
<1>33. CASE StopFlag
BY <1>33 DEF StopFlag
<1>34. CASE StopNotify
BY <1>34 DEF StopNotify
<1>35. CASE StopFinish
BY <1>35 DEF StopFinish
<1>36. CASE Tick
BY <1>36 DEF Tick, Times
<1>37. ASSUME NEW t \in Times, SetClock(t) PROVE StateOK'
BY <1>37 DEF SetClock
<1>38. CASE UNCHANGED vars
BY <1>38 DEF vars
<1> QED
  BY <1>1, <1>2, <1>3, <1>4, <1>5, <1>6, <1>7, <1>8, <1>9, <1>10,
     <1>11, <1>12, <1>13, <1>14, <1>15, <1>16, <1>17, <1>18, <1>19, <1>20,
     <1>21, <1>22, <1>23, <1>24, <1>25, <1>26, <1>27, <1>28, <1>29, <1>30,
     <1>31, <1>32, <1>33, <1>34, <1>35, <1>36, <1>37, <1>38 DEF Next,
     RunnerStep, TimerStep, StopStep

\* The destroying thread's flags and the runner task agree after every step.
LEMMA LifeStep == TypeOK /\ LifeInv /\ [Next]_vars => LifeInv'
<1> SUFFICES ASSUME TypeOK /\ LifeInv, [Next]_vars PROVE LifeInv'
  OBVIOUS
<1> USE DEF LifeInv, StopPath, Quieting, registry, timer, life, history, spent
<1>1. ASSUME NEW cmd \in Commands, EnqueueSend(cmd) PROVE LifeInv'
BY <1>1 DEF EnqueueSend
<1>2. ASSUME NEW cmd \in Commands, CallbackCommand(cmd) PROVE LifeInv'
BY <1>2 DEF CallbackCommand, Apply, ApplyRegisterTask, ApplyCancelTask
<1>3. CASE EnqueueNotify
BY <1>3 DEF EnqueueNotify
<1>4. CASE Take
BY <1>4 DEF Take
<1>5. CASE Check
BY <1>5 DEF Check
<1>6. CASE DrainCommand
BY <1>6 DEF DrainCommand
<1>7. CASE DrainDone
BY <1>7 DEF DrainDone
<1>8. CASE Loop
BY <1>8 DEF Loop
<1>9. CASE ReadClock
BY <1>9 DEF ReadClock
<1>10. CASE ProcessPendingCommand
BY <1>10 DEF ProcessPendingCommand, Apply, ApplyRegisterTask, ApplyCancelTask
<1>11. CASE SnapshotDue
BY <1>11 DEF SnapshotDue
<1>12. CASE BeginDue
BY <1>12 DEF BeginDue
<1>13. CASE CallbackDone
BY <1>13 DEF CallbackDone
<1>14. CASE BatchDone
BY <1>14 DEF BatchDone
<1>15. CASE Disarm
BY <1>15 DEF Disarm
<1>16. CASE ArmAfter
BY <1>16 DEF ArmAfter
<1>17. CASE StopApplied
BY <1>17 DEF StopApplied
<1>18. CASE Quiesce
BY <1>18 DEF Quiesce
<1>19. CASE StopTimer
BY <1>19 DEF StopTimer
<1>20. CASE ArmBarrier
BY <1>20 DEF ArmBarrier
<1>21. CASE AwaitBarrier
BY <1>21 DEF AwaitBarrier
<1>22. CASE DropCallback
BY <1>22 DEF DropCallback
<1>23. CASE Exit
BY <1>23 DEF Exit
<1>24. CASE ArmUnavailable
BY <1>24 DEF ArmUnavailable
<1>25. CASE Expire
BY <1>25 DEF Expire
<1>26. CASE EnterOwner
BY <1>26 DEF EnterOwner
<1>27. CASE LoadQuiescing
BY <1>27 DEF LoadQuiescing
<1>28. CASE ExpiryCallback
BY <1>28 DEF ExpiryCallback
<1>29. CASE CompleteBarrier
BY <1>29 DEF CompleteBarrier
<1>30. CASE GiveQuiesced
BY <1>30 DEF GiveQuiesced
<1>31. CASE LeaveOwner
BY <1>31 DEF LeaveOwner
<1>32. CASE StopClose
BY <1>32 DEF StopClose
<1>33. CASE StopFlag
BY <1>33 DEF StopFlag
<1>34. CASE StopNotify
BY <1>34 DEF StopNotify
<1>35. CASE StopFinish
BY <1>35 DEF StopFinish
<1>36. CASE Tick
BY <1>36 DEF Tick
<1>37. ASSUME NEW t \in Times, SetClock(t) PROVE LifeInv'
BY <1>37 DEF SetClock
<1>38. CASE UNCHANGED vars
BY <1>38 DEF vars
<1> QED
  BY <1>1, <1>2, <1>3, <1>4, <1>5, <1>6, <1>7, <1>8, <1>9, <1>10,
     <1>11, <1>12, <1>13, <1>14, <1>15, <1>16, <1>17, <1>18, <1>19, <1>20,
     <1>21, <1>22, <1>23, <1>24, <1>25, <1>26, <1>27, <1>28, <1>29, <1>30,
     <1>31, <1>32, <1>33, <1>34, <1>35, <1>36, <1>37, <1>38 DEF Next,
     RunnerStep, TimerStep, StopStep

\* Exactly the task whose callback runs is executing.
LEMMA ActiveStep == TypeOK /\ ActiveInv /\ [Next]_vars => ActiveInv'
<1> SUFFICES ASSUME TypeOK /\ ActiveInv, [Next]_vars PROVE ActiveInv'
  OBVIOUS
<1> USE IdsAssumption DEF ActiveInv, TypeOK, StateOK, NoTask, registry, timer,
      life, history, spent
<1>1. ASSUME NEW cmd \in Commands, EnqueueSend(cmd) PROVE ActiveInv'
BY <1>1 DEF EnqueueSend
<1>2. ASSUME NEW cmd \in Commands, CallbackCommand(cmd) PROVE ActiveInv'
BY <1>2, CommandFields DEF CallbackCommand, Apply, ApplyRegisterTask,
     ApplyCancelTask
<1>3. CASE EnqueueNotify
BY <1>3 DEF EnqueueNotify
<1>4. CASE Take
BY <1>4 DEF Take
<1>5. CASE Check
BY <1>5 DEF Check
<1>6. CASE DrainCommand
BY <1>6 DEF DrainCommand
<1>7. CASE DrainDone
BY <1>7 DEF DrainDone
<1>8. CASE Loop
BY <1>8 DEF Loop
<1>9. CASE ReadClock
BY <1>9 DEF ReadClock
<1>10. CASE ProcessPendingCommand
BY <1>10, CommandFields DEF ProcessPendingCommand, Apply, ApplyRegisterTask,
     ApplyCancelTask
<1>11. CASE SnapshotDue
BY <1>11 DEF SnapshotDue
<1>12. CASE BeginDue
BY <1>12 DEF BeginDue, IsFirst
<1>13. CASE CallbackDone
BY <1>13 DEF CallbackDone
<1>14. CASE BatchDone
BY <1>14 DEF BatchDone
<1>15. CASE Disarm
BY <1>15 DEF Disarm
<1>16. CASE ArmAfter
BY <1>16 DEF ArmAfter
<1>17. CASE StopApplied
BY <1>17 DEF StopApplied
<1>18. CASE Quiesce
BY <1>18 DEF Quiesce
<1>19. CASE StopTimer
BY <1>19 DEF StopTimer
<1>20. CASE ArmBarrier
BY <1>20 DEF ArmBarrier
<1>21. CASE AwaitBarrier
BY <1>21 DEF AwaitBarrier
<1>22. CASE DropCallback
BY <1>22 DEF DropCallback
<1>23. CASE Exit
BY <1>23 DEF Exit
<1>24. CASE ArmUnavailable
BY <1>24 DEF ArmUnavailable
<1>25. CASE Expire
BY <1>25 DEF Expire
<1>26. CASE EnterOwner
BY <1>26 DEF EnterOwner
<1>27. CASE LoadQuiescing
BY <1>27 DEF LoadQuiescing
<1>28. CASE ExpiryCallback
BY <1>28 DEF ExpiryCallback
<1>29. CASE CompleteBarrier
BY <1>29 DEF CompleteBarrier
<1>30. CASE GiveQuiesced
BY <1>30 DEF GiveQuiesced
<1>31. CASE LeaveOwner
BY <1>31 DEF LeaveOwner
<1>32. CASE StopClose
BY <1>32 DEF StopClose
<1>33. CASE StopFlag
BY <1>33 DEF StopFlag
<1>34. CASE StopNotify
BY <1>34 DEF StopNotify
<1>35. CASE StopFinish
BY <1>35 DEF StopFinish
<1>36. CASE Tick
BY <1>36 DEF Tick
<1>37. ASSUME NEW t \in Times, SetClock(t) PROVE ActiveInv'
BY <1>37 DEF SetClock
<1>38. CASE UNCHANGED vars
BY <1>38 DEF vars
<1> QED
  BY <1>1, <1>2, <1>3, <1>4, <1>5, <1>6, <1>7, <1>8, <1>9, <1>10,
     <1>11, <1>12, <1>13, <1>14, <1>15, <1>16, <1>17, <1>18, <1>19, <1>20,
     <1>21, <1>22, <1>23, <1>24, <1>25, <1>26, <1>27, <1>28, <1>29, <1>30,
     <1>31, <1>32, <1>33, <1>34, <1>35, <1>36, <1>37, <1>38 DEF Next,
     RunnerStep, TimerStep, StopStep

\* An accepted command is queued, drained or applied, and a queued one has a wake-up to come.
LEMMA TransitStep == TypeOK /\ LifeInv /\ TransitInv /\ [Next]_vars => TransitInv'
<1> SUFFICES ASSUME TypeOK /\ LifeInv /\ TransitInv, [Next]_vars PROVE TransitInv'
  OBVIOUS
<1> USE DEF TransitInv, TypeOK, StateOK, LifeInv, StopPath, Quieting,
      registry, timer, life, history, spent
<1>1. ASSUME NEW cmd \in Commands, EnqueueSend(cmd) PROVE TransitInv'
BY <1>1 DEF EnqueueSend
<1>2. ASSUME NEW cmd \in Commands, CallbackCommand(cmd) PROVE TransitInv'
BY <1>2 DEF CallbackCommand, Apply, ApplyRegisterTask, ApplyCancelTask
<1>3. CASE EnqueueNotify
BY <1>3 DEF EnqueueNotify
<1>4. CASE Take
BY <1>4 DEF Take
<1>5. CASE Check
BY <1>5 DEF Check
<1>6. CASE DrainCommand
BY <1>6 DEF DrainCommand
<1>7. CASE DrainDone
BY <1>7 DEF DrainDone
<1>8. CASE Loop
BY <1>8 DEF Loop
<1>9. CASE ReadClock
BY <1>9 DEF ReadClock
<1>10. CASE ProcessPendingCommand
BY <1>10 DEF ProcessPendingCommand, Apply, ApplyRegisterTask, ApplyCancelTask
<1>11. CASE SnapshotDue
BY <1>11 DEF SnapshotDue
<1>12. CASE BeginDue
BY <1>12 DEF BeginDue
<1>13. CASE CallbackDone
BY <1>13 DEF CallbackDone
<1>14. CASE BatchDone
BY <1>14 DEF BatchDone
<1>15. CASE Disarm
BY <1>15 DEF Disarm
<1>16. CASE ArmAfter
BY <1>16 DEF ArmAfter
<1>17. CASE StopApplied
BY <1>17 DEF StopApplied
<1>18. CASE Quiesce
BY <1>18 DEF Quiesce
<1>19. CASE StopTimer
BY <1>19 DEF StopTimer
<1>20. CASE ArmBarrier
BY <1>20 DEF ArmBarrier
<1>21. CASE AwaitBarrier
BY <1>21 DEF AwaitBarrier
<1>22. CASE DropCallback
BY <1>22 DEF DropCallback
<1>23. CASE Exit
BY <1>23 DEF Exit
<1>24. CASE ArmUnavailable
BY <1>24 DEF ArmUnavailable
<1>25. CASE Expire
BY <1>25 DEF Expire
<1>26. CASE EnterOwner
BY <1>26 DEF EnterOwner
<1>27. CASE LoadQuiescing
BY <1>27 DEF LoadQuiescing
<1>28. CASE ExpiryCallback
BY <1>28 DEF ExpiryCallback
<1>29. CASE CompleteBarrier
BY <1>29 DEF CompleteBarrier
<1>30. CASE GiveQuiesced
BY <1>30 DEF GiveQuiesced
<1>31. CASE LeaveOwner
BY <1>31 DEF LeaveOwner
<1>32. CASE StopClose
BY <1>32 DEF StopClose
<1>33. CASE StopFlag
BY <1>33 DEF StopFlag
<1>34. CASE StopNotify
BY <1>34 DEF StopNotify
<1>35. CASE StopFinish
BY <1>35 DEF StopFinish
<1>36. CASE Tick
BY <1>36 DEF Tick
<1>37. ASSUME NEW t \in Times, SetClock(t) PROVE TransitInv'
BY <1>37 DEF SetClock
<1>38. CASE UNCHANGED vars
BY <1>38 DEF vars
<1> QED
  BY <1>1, <1>2, <1>3, <1>4, <1>5, <1>6, <1>7, <1>8, <1>9, <1>10,
     <1>11, <1>12, <1>13, <1>14, <1>15, <1>16, <1>17, <1>18, <1>19, <1>20,
     <1>21, <1>22, <1>23, <1>24, <1>25, <1>26, <1>27, <1>28, <1>29, <1>30,
     <1>31, <1>32, <1>33, <1>34, <1>35, <1>36, <1>37, <1>38 DEF Next,
     RunnerStep, TimerStep, StopStep

\* The barrier protocol of ClearExpiryCallbackAndWait.
LEMMA BarrierStep == TypeOK /\ BarrierInv /\ [Next]_vars => BarrierInv'
<1> SUFFICES ASSUME TypeOK /\ BarrierInv, [Next]_vars PROVE BarrierInv'
  OBVIOUS
<1> USE DEF BarrierInv, TypeOK, StateOK, Quieting, Off, RunnerPCs, registry,
      timer, life, history, spent
<1>1. ASSUME NEW cmd \in Commands, EnqueueSend(cmd) PROVE BarrierInv'
BY <1>1 DEF EnqueueSend
<1>2. ASSUME NEW cmd \in Commands, CallbackCommand(cmd) PROVE BarrierInv'
BY <1>2 DEF CallbackCommand, Apply, ApplyRegisterTask, ApplyCancelTask
<1>3. CASE EnqueueNotify
BY <1>3 DEF EnqueueNotify
<1>4. CASE Take
BY <1>4 DEF Take
<1>5. CASE Check
BY <1>5 DEF Check
<1>6. CASE DrainCommand
BY <1>6 DEF DrainCommand
<1>7. CASE DrainDone
BY <1>7 DEF DrainDone
<1>8. CASE Loop
BY <1>8 DEF Loop
<1>9. CASE ReadClock
BY <1>9 DEF ReadClock
<1>10. CASE ProcessPendingCommand
BY <1>10 DEF ProcessPendingCommand, Apply, ApplyRegisterTask, ApplyCancelTask
<1>11. CASE SnapshotDue
BY <1>11 DEF SnapshotDue
<1>12. CASE BeginDue
BY <1>12 DEF BeginDue
<1>13. CASE CallbackDone
BY <1>13 DEF CallbackDone
<1>14. CASE BatchDone
BY <1>14 DEF BatchDone
<1>15. CASE Disarm
BY <1>15 DEF Disarm
<1>16. CASE ArmAfter
BY <1>16 DEF ArmAfter
<1>17. CASE StopApplied
BY <1>17 DEF StopApplied
<1>18. CASE Quiesce
BY <1>18 DEF Quiesce
<1>19. CASE StopTimer
BY <1>19 DEF StopTimer
<1>20. CASE ArmBarrier
BY <1>20 DEF ArmBarrier
<1>21. CASE AwaitBarrier
BY <1>21 DEF AwaitBarrier
<1>22. CASE DropCallback
BY <1>22 DEF DropCallback
<1>23. CASE Exit
BY <1>23 DEF Exit
<1>24. CASE ArmUnavailable
BY <1>24 DEF ArmUnavailable
<1>25. CASE Expire
BY <1>25 DEF Expire
<1>26. CASE EnterOwner
BY <1>26 DEF EnterOwner
<1>27. CASE LoadQuiescing
BY <1>27 DEF LoadQuiescing
<1>28. CASE ExpiryCallback
BY <1>28 DEF ExpiryCallback
<1>29. CASE CompleteBarrier
BY <1>29 DEF CompleteBarrier
<1>30. CASE GiveQuiesced
BY <1>30 DEF GiveQuiesced
<1>31. CASE LeaveOwner
BY <1>31 DEF LeaveOwner
<1>32. CASE StopClose
BY <1>32 DEF StopClose
<1>33. CASE StopFlag
BY <1>33 DEF StopFlag
<1>34. CASE StopNotify
BY <1>34 DEF StopNotify
<1>35. CASE StopFinish
BY <1>35 DEF StopFinish
<1>36. CASE Tick
BY <1>36 DEF Tick
<1>37. ASSUME NEW t \in Times, SetClock(t) PROVE BarrierInv'
BY <1>37 DEF SetClock
<1>38. CASE UNCHANGED vars
BY <1>38 DEF vars
<1> QED
  BY <1>1, <1>2, <1>3, <1>4, <1>5, <1>6, <1>7, <1>8, <1>9, <1>10,
     <1>11, <1>12, <1>13, <1>14, <1>15, <1>16, <1>17, <1>18, <1>19, <1>20,
     <1>21, <1>22, <1>23, <1>24, <1>25, <1>26, <1>27, <1>28, <1>29, <1>30,
     <1>31, <1>32, <1>33, <1>34, <1>35, <1>36, <1>37, <1>38 DEF Next,
     RunnerStep, TimerStep, StopStep

\* No step leaves a sleeping runner task without an expiry to come.
LEMMA ArmedStep == TypeOK /\ LifeInv /\ BarrierInv /\ ArmedInv /\ [Next]_vars => ArmedInv'
<1> SUFFICES ASSUME TypeOK /\ LifeInv /\ BarrierInv /\ ArmedInv, [Next]_vars PROVE ArmedInv'
  OBVIOUS
<1> USE DEF ArmedInv, ExpiryUnderWay, Pending, TypeOK, StateOK, LifeInv,
      BarrierInv, Quieting, StopPath, Off, registry, timer, life, history,
      spent
<1>1. ASSUME NEW cmd \in Commands, EnqueueSend(cmd) PROVE ArmedInv'
BY <1>1 DEF EnqueueSend
<1>2. ASSUME NEW cmd \in Commands, CallbackCommand(cmd) PROVE ArmedInv'
BY <1>2 DEF CallbackCommand, Apply, ApplyRegisterTask, ApplyCancelTask
<1>3. CASE EnqueueNotify
BY <1>3 DEF EnqueueNotify
<1>4. CASE Take
BY <1>4 DEF Take
<1>5. CASE Check
BY <1>5 DEF Check
<1>6. CASE DrainCommand
BY <1>6 DEF DrainCommand
<1>7. CASE DrainDone
BY <1>7 DEF DrainDone
<1>8. CASE Loop
BY <1>8 DEF Loop
<1>9. CASE ReadClock
BY <1>9 DEF ReadClock
<1>10. CASE ProcessPendingCommand
BY <1>10 DEF ProcessPendingCommand, Apply, ApplyRegisterTask, ApplyCancelTask
<1>11. CASE SnapshotDue
BY <1>11 DEF SnapshotDue
<1>12. CASE BeginDue
BY <1>12 DEF BeginDue
<1>13. CASE CallbackDone
BY <1>13 DEF CallbackDone
<1>14. CASE BatchDone
BY <1>14 DEF BatchDone
<1>15. CASE Disarm
BY <1>15 DEF Disarm
<1>16. CASE ArmAfter
BY <1>16 DEF ArmAfter, Delay, Times, IsFirst
<1>17. CASE StopApplied
BY <1>17 DEF StopApplied
<1>18. CASE Quiesce
BY <1>18 DEF Quiesce
<1>19. CASE StopTimer
BY <1>19 DEF StopTimer
<1>20. CASE ArmBarrier
BY <1>20 DEF ArmBarrier
<1>21. CASE AwaitBarrier
BY <1>21 DEF AwaitBarrier
<1>22. CASE DropCallback
BY <1>22 DEF DropCallback
<1>23. CASE Exit
BY <1>23 DEF Exit
<1>24. CASE ArmUnavailable
BY <1>24 DEF ArmUnavailable
<1>25. CASE Expire
BY <1>25 DEF Expire
<1>26. CASE EnterOwner
BY <1>26 DEF EnterOwner
<1>27. CASE LoadQuiescing
BY <1>27 DEF LoadQuiescing
<1>28. CASE ExpiryCallback
BY <1>28 DEF ExpiryCallback
<1>29. CASE CompleteBarrier
BY <1>29 DEF CompleteBarrier
<1>30. CASE GiveQuiesced
BY <1>30 DEF GiveQuiesced
<1>31. CASE LeaveOwner
BY <1>31 DEF LeaveOwner
<1>32. CASE StopClose
BY <1>32 DEF StopClose
<1>33. CASE StopFlag
BY <1>33 DEF StopFlag
<1>34. CASE StopNotify
BY <1>34 DEF StopNotify
<1>35. CASE StopFinish
BY <1>35 DEF StopFinish
<1>36. CASE Tick
BY <1>36 DEF Tick, Times
<1>37. ASSUME NEW t \in Times, SetClock(t) PROVE ArmedInv'
BY <1>37 DEF SetClock
<1>38. CASE UNCHANGED vars
BY <1>38 DEF vars
<1> QED
  BY <1>1, <1>2, <1>3, <1>4, <1>5, <1>6, <1>7, <1>8, <1>9, <1>10,
     <1>11, <1>12, <1>13, <1>14, <1>15, <1>16, <1>17, <1>18, <1>19, <1>20,
     <1>21, <1>22, <1>23, <1>24, <1>25, <1>26, <1>27, <1>28, <1>29, <1>30,
     <1>31, <1>32, <1>33, <1>34, <1>35, <1>36, <1>37, <1>38 DEF Next,
     RunnerStep, TimerStep, StopStep

\* While SNTP never sets the clock, the timer is never armed too late.
LEMMA EarlyStep ==
    TypeOK /\ BarrierInv /\ EarlyInv /\ [Next]_vars => EarlyInv'
<1> SUFFICES ASSUME TypeOK /\ BarrierInv /\ EarlyInv, [Next]_vars PROVE EarlyInv'
  OBVIOUS
<1> USE DEF EarlyInv, Pending, Delay, Times, TypeOK, StateOK, BarrierInv,
      Quieting, Off, registry, timer, life, history, spent
<1>1. ASSUME NEW cmd \in Commands, EnqueueSend(cmd) PROVE EarlyInv'
BY <1>1 DEF EnqueueSend
<1>2. ASSUME NEW cmd \in Commands, CallbackCommand(cmd) PROVE EarlyInv'
BY <1>2 DEF CallbackCommand, Apply, ApplyRegisterTask, ApplyCancelTask
<1>3. CASE EnqueueNotify
BY <1>3 DEF EnqueueNotify
<1>4. CASE Take
BY <1>4 DEF Take
<1>5. CASE Check
BY <1>5 DEF Check
<1>6. CASE DrainCommand
BY <1>6 DEF DrainCommand
<1>7. CASE DrainDone
BY <1>7 DEF DrainDone
<1>8. CASE Loop
BY <1>8 DEF Loop
<1>9. CASE ReadClock
BY <1>9 DEF ReadClock
<1>10. CASE ProcessPendingCommand
BY <1>10 DEF ProcessPendingCommand, Apply, ApplyRegisterTask, ApplyCancelTask
<1>11. CASE SnapshotDue
BY <1>11 DEF SnapshotDue
<1>12. CASE BeginDue
BY <1>12 DEF BeginDue
<1>13. CASE CallbackDone
BY <1>13 DEF CallbackDone
<1>14. CASE BatchDone
BY <1>14 DEF BatchDone
<1>15. CASE Disarm
BY <1>15 DEF Disarm
<1>16. CASE ArmAfter
BY <1>16 DEF ArmAfter, IsFirst, Before
<1>17. CASE StopApplied
BY <1>17 DEF StopApplied
<1>18. CASE Quiesce
BY <1>18 DEF Quiesce
<1>19. CASE StopTimer
BY <1>19 DEF StopTimer
<1>20. CASE ArmBarrier
BY <1>20 DEF ArmBarrier
<1>21. CASE AwaitBarrier
BY <1>21 DEF AwaitBarrier
<1>22. CASE DropCallback
BY <1>22 DEF DropCallback
<1>23. CASE Exit
BY <1>23 DEF Exit
<1>24. CASE ArmUnavailable
BY <1>24 DEF ArmUnavailable
<1>25. CASE Expire
BY <1>25 DEF Expire
<1>26. CASE EnterOwner
BY <1>26 DEF EnterOwner
<1>27. CASE LoadQuiescing
BY <1>27 DEF LoadQuiescing
<1>28. CASE ExpiryCallback
BY <1>28 DEF ExpiryCallback
<1>29. CASE CompleteBarrier
BY <1>29 DEF CompleteBarrier
<1>30. CASE GiveQuiesced
BY <1>30 DEF GiveQuiesced
<1>31. CASE LeaveOwner
BY <1>31 DEF LeaveOwner
<1>32. CASE StopClose
BY <1>32 DEF StopClose
<1>33. CASE StopFlag
BY <1>33 DEF StopFlag
<1>34. CASE StopNotify
BY <1>34 DEF StopNotify
<1>35. CASE StopFinish
BY <1>35 DEF StopFinish
<1>36. CASE Tick
BY <1>36 DEF Tick
<1>37. ASSUME NEW t \in Times, SetClock(t) PROVE EarlyInv'
BY <1>37 DEF SetClock
<1>38. CASE UNCHANGED vars
BY <1>38 DEF vars
<1> QED
  BY <1>1, <1>2, <1>3, <1>4, <1>5, <1>6, <1>7, <1>8, <1>9, <1>10,
     <1>11, <1>12, <1>13, <1>14, <1>15, <1>16, <1>17, <1>18, <1>19, <1>20,
     <1>21, <1>22, <1>23, <1>24, <1>25, <1>26, <1>27, <1>28, <1>29, <1>30,
     <1>31, <1>32, <1>33, <1>34, <1>35, <1>36, <1>37, <1>38 DEF Next,
     RunnerStep, TimerStep, StopStep

-----------------------------------------------------------------------------
(* The theorems.                                                           *)

\* The service starts in the types of its variables.
LEMMA InitTypes == Init => TypeOK
<1> SUFFICES ASSUME Init PROVE TypeOK
  OBVIOUS
<1>1. FlagsOK
  BY Zenon DEF Init, FlagsOK
<1>2. StateOK
  BY BoundsAssumption
     DEF Init, StateOK, Times, NoTask, Off, RunnerPCs, TimerPCs, StopPCs
<1> QED
  BY <1>1, <1>2 DEF TypeOK

\* Every variable keeps its type, and the command queue its depth.
THEOREM TypeCorrect == Spec => []TypeOK
<1>1. Init => TypeOK
  BY InitTypes
<1>2. TypeOK /\ [Next]_vars => TypeOK'
  BY FlagsStep, StateStep DEF TypeOK
<1> QED
  BY <1>1, <1>2, PTL DEF Spec

\* The inductive invariant that the safety theorems rest on.
THEOREM Inductive == Spec => []IInv
<1>1. Init => IInv
  <2> SUFFICES ASSUME Init PROVE IInv
    OBVIOUS
  <2>1. TypeOK
    BY InitTypes
  <2>2. LifeInv /\ BarrierInv
    BY DEF Init, LifeInv, BarrierInv, StopPath, Quieting
  <2>3. ActiveInv /\ TransitInv /\ ArmedInv
    BY IdsAssumption
       DEF Init, ActiveInv, TransitInv, ArmedInv, Pending, StopPath, Quieting,
           NoTask
  <2> QED
    BY <2>1, <2>2, <2>3 DEF IInv
<1>2. IInv /\ [Next]_vars => IInv'
  BY FlagsStep, StateStep, LifeStep, ActiveStep, TransitStep, BarrierStep,
     ArmedStep DEF IInv, TypeOK
<1> QED
  BY <1>1, <1>2, PTL DEF Spec

\* No wake-up is lost: a sleeping runner task that is not notified has an
\* expiry to come for its pending tasks and a client about to notify for a
\* queued command (Run, Enqueue, ProcessWake, TimerEntry).
THEOREM NoLostWakeUp == Spec => []WakeIsComing
<1>1. IInv => WakeIsComing
  BY DEF IInv, ArmedInv, TransitInv, WakeIsComing
<1> QED
  BY <1>1, Inductive, PTL

\* Stop loses no accepted command (Enqueue, Stop, Run).
THEOREM NoAcceptedCommandLost == Spec => []AcceptedCommandsApplied
<1>1. IInv => AcceptedCommandsApplied
  BY DEF IInv, TypeOK, StateOK, TransitInv, AcceptedCommandsApplied, StopPath,
         Quieting
<1> QED
  BY <1>1, Inductive, PTL

\* The expiry callback is dropped only when TimerEntry is left for good
\* (ClearExpiryCallbackAndWait, TimerEntry).
THEOREM TimerQuiesces == Spec => []TimerIsQuiet
<1>1. IInv => TimerIsQuiet
  BY DEF IInv, BarrierInv, TimerIsQuiet
<1> QED
  BY <1>1, Inductive, PTL

\* The runner task is not notified through a handle that Stop cleared.
THEOREM StopIsClean == Spec => []NoNotifyAfterStop
<1>1. IInv => NoNotifyAfterStop
  BY DEF IInv, LifeInv, BarrierInv, NoNotifyAfterStop
<1> QED
  BY <1>1, Inductive, PTL

\* As long as SNTP has not set the wall clock, the timer expires no later than
\* the earliest pending task is due (ProcessWake, ArmAfter).
THEOREM TimerInTime == Spec => []TimerIsNotLate
<1>1. Init => EarlyInv
  BY DEF Init, EarlyInv, Pending
<1>2. IInv /\ EarlyInv /\ [Next]_vars => EarlyInv'
  BY EarlyStep DEF IInv
<1>3. EarlyInv => TimerIsNotLate
  BY DEF EarlyInv, TimerIsNotLate, FiresByWallClock
<1> QED
  BY <1>1, <1>2, <1>3, Inductive, PTL DEF Spec

\* The registry implements the life cycle of a one-shot task: an id is used
\* once, a task runs at most once and not after its cancellation, and two
\* callbacks never overlap (ApplyRegisterTask, ApplyCancelTask, RunDueTasks).
THEOREM RegistryImplementsTasks == Spec => ImplementsTasks
<1>1. Init => Tasks!Init
  BY DEF Init, Tasks!Init
<1>2. IInv /\ [Next]_vars => [Tasks!Next]_status
  <2> SUFFICES ASSUME IInv, [Next]_vars, status' # status PROVE Tasks!Next
    OBVIOUS
  <2> USE DEF IInv, TypeOK, StateOK
  <2>1. ASSUME NEW cmd \in Commands, Apply(cmd) PROVE Tasks!Next
    <3>1. cmd.id \in Ids
      BY CommandFields
    <3>2. CASE ApplyRegisterTask(cmd)
      <4>1. Tasks!Register(cmd.id)
        BY <3>1, <3>2 DEF ApplyRegisterTask, Tasks!Register
      <4> QED
        BY <3>1, <4>1 DEF Tasks!Next
    <3>3. CASE ApplyCancelTask(cmd)
      <4>1. Tasks!Advance(cmd.id, "cancelled")
        BY <3>1, <3>3 DEF ApplyCancelTask, Tasks!Advance, Tasks!CanTransition
      <4> QED
        BY <3>1, <4>1 DEF Tasks!Next, Tasks!Statuses
    <3> QED
      BY <2>1, <3>2, <3>3 DEF Apply
  <2>2. ASSUME NEW cmd \in Commands, CallbackCommand(cmd) PROVE Tasks!Next
    BY <2>1, <2>2 DEF CallbackCommand
  <2>3. CASE ProcessPendingCommand
    <3>1. Head(commands) \in Commands
      BY <2>3 DEF ProcessPendingCommand
    <3> QED
      BY <2>1, <2>3, <3>1 DEF ProcessPendingCommand
  <2>4. CASE BeginDue
    <3>1. PICK i \in batch :
            status[i] = "pending" /\ status' = [status EXCEPT ![i] = "executing"]
      BY <2>4 DEF BeginDue
    <3>2. i \in Ids /\ \A j \in Ids : status[j] # "executing"
      BY <2>4 DEF BeginDue, ActiveInv, NoTask
    <3>3. Tasks!Advance(i, "executing")
      BY <3>1, <3>2 DEF Tasks!Advance, Tasks!CanTransition
    <3> QED
      BY <3>2, <3>3 DEF Tasks!Next, Tasks!Statuses
  <2>5. CASE CallbackDone
    <3>1. active \in Ids /\ status[active] = "executing"
      BY <2>5 DEF CallbackDone, ActiveInv
    <3>2. Tasks!Advance(active, "completed")
      BY <2>5, <3>1 DEF CallbackDone, Tasks!Advance, Tasks!CanTransition
    <3> QED
      BY <3>1, <3>2 DEF Tasks!Next, Tasks!Statuses
  <2>6. ASSUME NEW cmd \in Commands, EnqueueSend(cmd) PROVE FALSE
    BY <2>6 DEF EnqueueSend, registry
  <2>7. ASSUME NEW t \in Times, SetClock(t) PROVE FALSE
    BY <2>7 DEF SetClock, registry
  <2>8. ASSUME \/ Take \/ Check \/ DrainCommand \/ DrainDone \/ Loop
               \/ ReadClock \/ SnapshotDue \/ BatchDone \/ Disarm \/ ArmAfter
               \/ StopApplied \/ Quiesce \/ StopTimer \/ ArmBarrier
               \/ AwaitBarrier \/ DropCallback \/ Exit
        PROVE  FALSE
    BY <2>8 DEF Take, Check, DrainCommand, DrainDone, Loop, ReadClock,
       SnapshotDue, BatchDone, Disarm, ArmAfter, StopApplied, Quiesce,
       StopTimer, ArmBarrier, AwaitBarrier, DropCallback, Exit, registry
  <2>9. ASSUME TimerStep \/ StopStep \/ StopClose \/ EnqueueNotify
               \/ ArmUnavailable \/ Tick \/ UNCHANGED vars
        PROVE  FALSE
    BY <2>9 DEF TimerStep, Expire, EnterOwner, LoadQuiescing, ExpiryCallback,
       CompleteBarrier, GiveQuiesced, LeaveOwner, StopStep, StopFlag,
       StopNotify, StopFinish, StopClose, EnqueueNotify, ArmUnavailable, Tick,
       vars, registry
  <2> QED
    BY <2>2, <2>3, <2>4, <2>5, <2>6, <2>7, <2>8, <2>9 DEF Next, RunnerStep
<1> QED
  BY <1>1, <1>2, Inductive, PTL DEF Spec, ImplementsTasks, Tasks!Spec
=============================================================================
