---------------------------- MODULE AtlasHostProofs ----------------------------
(***************************************************************************)
(* What holds of AtlasHost for any number of processes, runs and deaths,    *)
(* and of AtlasViews for any number of viewers beside them.                 *)
(***************************************************************************)
EXTENDS AtlasViews, WellFoundedInduction, TLAPS

-----------------------------------------------------------------------------
(* The locks: what each process holds follows from where it is.  A run's     *)
(* lock may be a viewer's for an instant, which is all that a worker or a   *)
(* parent has to know of viewers.                                           *)

Holders == Actors \cup Probing

SealWriterPcs == {"sealRun", "sealRead", "sealStart", "sealStop"}
SealRunPcs    == {"sealRead", "sealStart", "sealStop"}

LockTypes ==
    /\ run \in [Workers -> Runs] /\ pc \in [Workers -> WorkerPcs]
    /\ parent \in [Cli -> ParentPcs]
    /\ writer \in Actors /\ runLock \in [Runs -> Holders]

WorkersHold ==
    \A p \in Workers : /\ pc[p] \in WriterPcs => writer = Worker(p)
                       /\ pc[p] \in RunLockPcs => runLock[run[p]] = Worker(p)

ParentsHold ==
    \A c \in Cli : /\ parent[c] \in SealWriterPcs => writer = Parent(c)
                   /\ parent[c] \in SealRunPcs => runLock[run[c]] = Parent(c)

LockInv == LockTypes /\ WorkersHold /\ ParentsHold

LEMMA ActorsDiffer ==
    /\ \A p, q : Worker(p) = Worker(q) => p = q
    /\ \A p, q : Parent(p) = Parent(q) => p = q
    /\ \A p, q : Worker(p) # Parent(q)
    /\ \A p : Worker(p) # Nobody /\ Parent(p) # Nobody
BY DEF Worker, Parent, Nobody

LEMMA AreActors ==
    /\ Nobody \in Actors
    /\ \A p \in Workers : Worker(p) \in Actors
    /\ \A c \in Cli : Parent(c) \in Actors
    /\ Actors \subseteq Holders
BY DEF Actors, Holders

LEMMA LocksImplyOneWriter == LockInv => OneWriter
BY ActorsDiffer DEF LockInv, LockTypes, WorkersHold, ParentsHold, OneWriter,
   WriterPcs, RunLockPcs, WritingPcs, SealingPcs, SealWriterPcs, SealRunPcs, Workers

LEMMA LocksInit == Init => LockInv
BY AreActors DEF Init, LockInv, LockTypes, WorkersHold, ParentsHold, WorkerPcs,
   WriterPcs, RunLockPcs, WritingPcs, EndedPcs, ParentPcs, SealWriterPcs, SealRunPcs

-----------------------------------------------------------------------------
(* A worker that moves and leaves the locks alone holds what it held.       *)
LEMMA MovesInPlace ==
    ASSUME LockInv, NEW p \in Workers, NEW at \in WorkerPcs, Goto(p, at),
           at \in WriterPcs => pc[p] \in WriterPcs,
           at \in RunLockPcs => pc[p] \in RunLockPcs,
           UNCHANGED <<run, writer, runLock, parent>>
    PROVE  LockInv'
BY DEF LockInv, LockTypes, WorkersHold, ParentsHold, Goto, Actors, Workers

(* A parent that moves and leaves the locks alone.                          *)
LEMMA ParentMovesInPlace ==
    ASSUME LockInv, NEW c \in Cli, NEW at \in ParentPcs,
           parent' = [parent EXCEPT ![c] = at],
           at \in SealWriterPcs => parent[c] \in SealWriterPcs,
           at \in SealRunPcs => parent[c] \in SealRunPcs,
           UNCHANGED <<run, writer, runLock, pc>>
    PROVE  LockInv'
BY DEF LockInv, LockTypes, WorkersHold, ParentsHold, Actors, Workers

LEMMA TakeWriterLocks ==
    ASSUME LockInv, NEW p \in Workers, TakeWriter(p)
    PROVE  LockInv'
BY ActorsDiffer, AreActors DEF LockInv, LockTypes, WorkersHold, ParentsHold, TakeWriter,
   Raises, Goto, WorkerPcs, WriterPcs, RunLockPcs, WritingPcs, EndedPcs, SealWriterPcs,
   SealRunPcs, parentVars, fileVars, Workers

LEMMA TakeRunLockLocks ==
    ASSUME LockInv, NEW p \in Workers, TakeRunLock(p)
    PROVE  LockInv'
BY ActorsDiffer, AreActors DEF LockInv, LockTypes, WorkersHold, ParentsHold, TakeRunLock,
   Raises, Goto, WorkerPcs, WriterPcs, RunLockPcs, WritingPcs, EndedPcs, SealWriterPcs,
   SealRunPcs, parentVars, fileVars, Workers

LEMMA ReleaseLocks ==
    ASSUME LockInv, NEW p \in Workers, ReleaseRun(p) \/ ReleaseWriter(p)
    PROVE  LockInv'
BY ActorsDiffer, AreActors DEF LockInv, LockTypes, WorkersHold, ParentsHold, ReleaseRun,
   ReleaseWriter, Goto, WorkerPcs, WriterPcs, RunLockPcs, WritingPcs, EndedPcs,
   SealWriterPcs, SealRunPcs, parentVars, fileVars, Workers

(* Every step of a worker that touches neither lock.                        *)
LEMMA OtherWorkerStepsLock ==
    ASSUME LockInv, NEW p \in Workers,
           \/ BuildSink(p) \/ Truncate(p) \/ CheckFresh(p) \/ CheckResume(p)
           \/ LogStart(p) \/ LogInterrupted(p) \/ LogResumed(p)
           \/ Work(p) \/ Verdict(p) \/ LogStop(p)
    PROVE  LockInv'
<1>1. UNCHANGED <<run, writer, runLock, parent>>
    BY DEF BuildSink, Truncate, CheckFresh, CheckResume, LogStart, LogInterrupted,
       LogResumed, Work, Verdict, LogStop, Appends, Raises, lockVars, parentVars
<1> DEFINE May(at) == /\ at \in WorkerPcs /\ Goto(p, at)
                      /\ at \in WriterPcs => pc[p] \in WriterPcs
                      /\ at \in RunLockPcs => pc[p] \in RunLockPcs
<1>2. CASE BuildSink(p) \/ Truncate(p)
    <2>1. \E at \in {"writer", "exited", "truncate"} : Goto(p, at)
        BY <1>2 DEF BuildSink, Truncate, Raises
    <2>2. \A at \in {"writer", "exited", "truncate"} : Goto(p, at) => May(at)
        BY DEF WorkerPcs, WriterPcs, RunLockPcs, WritingPcs, EndedPcs
    <2> QED  BY <1>1, <2>1, <2>2, MovesInPlace
<1>3. CASE CheckFresh(p) \/ CheckResume(p)
    <2>1. pc[p] = "check" /\ \E at \in {"start", "interrupt", "releaseRun"} : Goto(p, at)
        BY <1>3 DEF CheckFresh, CheckResume, Raises
    <2>2. \A at \in {"start", "interrupt", "releaseRun"} : Goto(p, at) => May(at)
        BY <2>1 DEF WorkerPcs, WriterPcs, RunLockPcs, WritingPcs
    <2> QED  BY <1>1, <2>1, <2>2, MovesInPlace
<1>4. CASE \/ LogStart(p) \/ LogInterrupted(p) \/ LogResumed(p)
           \/ Work(p) \/ Verdict(p) \/ LogStop(p)
    <2>1. /\ pc[p] \in WritingPcs
          /\ \E at \in {"resume", "running", "stop", "releaseRun"} : Goto(p, at)
        BY <1>4 DEF LogStart, LogInterrupted, LogResumed, Work, Verdict, LogStop, Appends,
           WritingPcs
    <2>2. \A at \in {"resume", "running", "stop", "releaseRun"} : Goto(p, at) => May(at)
        BY <2>1 DEF WorkerPcs, WriterPcs, RunLockPcs, WritingPcs
    <2> QED  BY <1>1, <2>1, <2>2, MovesInPlace
<1> QED  BY <1>2, <1>3, <1>4

(* A death releases what the process held, and nothing else.                *)
LEMMA DiesLocks ==
    ASSUME LockInv, NEW p \in Workers, Dies(p), run' = run,
           NEW c \in Cli, NEW at \in ParentPcs \ SealWriterPcs,
           parent' = parent \/ parent' = [parent EXCEPT ![c] = at]
    PROVE  LockInv'
BY ActorsDiffer, AreActors DEF LockInv, LockTypes, WorkersHold, ParentsHold, Dies,
   WorkerPcs, WriterPcs, RunLockPcs, WritingPcs, EndedPcs, SealWriterPcs, SealRunPcs,
   Workers

LEMMA CrashLocks ==
    ASSUME LockInv, NEW p \in Workers, Crash(p)
    PROVE  LockInv'
BY ActorsDiffer, AreActors DEF LockInv, LockTypes, WorkersHold, ParentsHold, Crash, Dies,
   WorkerPcs, WriterPcs, RunLockPcs, WritingPcs, EndedPcs, SealWriterPcs, SealRunPcs,
   Workers, parentVars

LEMMA ParentCrashLocks ==
    ASSUME LockInv, NEW c \in Cli, ParentCrash(c)
    PROVE  LockInv'
BY ActorsDiffer, AreActors DEF LockInv, LockTypes, WorkersHold, ParentsHold, ParentCrash,
   ParentPcs, SealWriterPcs, SealRunPcs, Workers, workerVars

LEMMA SealLocks ==
    ASSUME LockInv, NEW c \in Cli, SealWriter(c) \/ SealRun(c)
    PROVE  LockInv'
<1> DEFINE To(at) == parent' = [parent EXCEPT ![c] = at]
<1>1. UNCHANGED <<run, pc>>
    BY DEF SealWriter, SealRun, workerVars
<1>2. CASE SealWriter(c)
    <2>1. /\ parent[c] = "sealWriter"
          /\ \/ writer = Nobody /\ writer' = Parent(c) /\ To("sealRun")
             \/ writer' = writer /\ To("done")
          /\ UNCHANGED runLock
        BY <1>2 DEF SealWriter, AnswersUnsealed, Ends
    <2> QED  BY <1>1, <2>1, ActorsDiffer, AreActors DEF LockInv, LockTypes, WorkersHold,
             ParentsHold, ParentPcs, SealWriterPcs, SealRunPcs, Workers
<1>3. CASE SealRun(c)
    <2>1. /\ parent[c] = "sealRun"
          /\ \/ /\ runLock[run[c]] = Nobody /\ writer' = writer /\ To("sealRead")
                /\ runLock' = [runLock EXCEPT ![run[c]] = Parent(c)]
             \/ runLock' = runLock /\ writer' = Nobody /\ To("done")
        BY <1>3 DEF SealRun, AnswersUnsealed, Ends
    <2> QED  BY <1>1, <2>1, ActorsDiffer, AreActors DEF LockInv, LockTypes, WorkersHold,
             ParentsHold, ParentPcs, SealWriterPcs, SealRunPcs, Workers
<1> QED  BY <1>2, <1>3

LEMMA UnlockLocks ==
    ASSUME LockInv, NEW c \in Cli, parent[c] \in SealRunPcs, SealUnlock(c),
           parent' = [parent EXCEPT ![c] = "done"], UNCHANGED <<run, pc>>
    PROVE  LockInv'
BY ActorsDiffer, AreActors DEF LockInv, LockTypes, WorkersHold, ParentsHold, SealUnlock,
   ParentPcs, SealWriterPcs, SealRunPcs, Workers

LEMMA SealingLocks ==
    ASSUME LockInv, NEW c \in Cli, SealRead(c) \/ SealStart(c) \/ SealStop(c)
    PROVE  LockInv'
<1>1. parent[c] \in SealRunPcs /\ UNCHANGED <<run, pc>>
    BY DEF SealRead, SealStart, SealStop, SealRunPcs, workerVars
<1>2. CASE SealUnlock(c) /\ parent' = [parent EXCEPT ![c] = "done"]
    BY <1>1, <1>2, UnlockLocks
<1>3. CASE \E at \in {"sealStart", "sealStop"} :
              parent' = [parent EXCEPT ![c] = at] /\ UNCHANGED lockVars
    BY <1>1, <1>3, ParentMovesInPlace
       DEF lockVars, ParentPcs, SealWriterPcs, SealRunPcs
<1> QED  BY <1>2, <1>3 DEF SealRead, SealStart, SealStop, Answers, AnswersUnsealed,
         Ends

LEMMA OtherParentStepsLock ==
    ASSUME LockInv, NEW c \in Cli,
           Precheck(c) \/ Deliver(c) \/ LoseWorker(c) \/ KillWorker(c)
    PROVE  LockInv'
<1>1. CASE Precheck(c)
    BY <1>1 DEF LockInv, LockTypes, WorkersHold, ParentsHold, Precheck, Answers, Ends,
       Goto, lockVars, fileVars, WorkerPcs, WriterPcs, RunLockPcs, WritingPcs, EndedPcs,
       ParentPcs, SealWriterPcs, SealRunPcs, Workers
<1>2. CASE Deliver(c) \/ LoseWorker(c)
    <2>1. \E at \in {"done", "sealWriter"} : parent' = [parent EXCEPT ![c] = at]
        BY <1>2 DEF Deliver, LoseWorker, Answers, Ends
    <2>2. UNCHANGED <<run, writer, runLock, pc>>
        BY <1>2 DEF Deliver, LoseWorker, lockVars, workerVars
    <2> QED  BY <2>1, <2>2, ParentMovesInPlace DEF ParentPcs, SealWriterPcs, SealRunPcs
<1>3. CASE KillWorker(c)
    <2>1. run' = run /\ parent' = [parent EXCEPT ![c] = "sealWriter"]
        BY <1>3 DEF KillWorker
    <2>2. CASE pc[c] \in EndedPcs
        BY <1>3, <2>1, <2>2, ParentMovesInPlace
           DEF KillWorker, lockVars, workerVars, ParentPcs, SealWriterPcs, SealRunPcs
    <2>3. CASE pc[c] \notin EndedPcs
        BY <1>3, <2>1, <2>3, DiesLocks DEF KillWorker, Workers, ParentPcs, SealWriterPcs
    <2> QED  BY <2>2, <2>3
<1> QED  BY <1>1, <1>2, <1>3

LEMMA LocksNext == LockInv /\ [Next]_vars => LockInv'
<1> SUFFICES ASSUME LockInv, [Next]_vars PROVE LockInv'
    OBVIOUS
<1>1. ASSUME NEW p \in Workers, WorkerStep(p) \/ Crash(p) PROVE LockInv'
    BY <1>1, TakeWriterLocks, TakeRunLockLocks, ReleaseLocks, OtherWorkerStepsLock,
       CrashLocks DEF WorkerStep
<1>2. ASSUME NEW c \in Cli, ParentStep(c) \/ ParentCrash(c) PROVE LockInv'
    BY <1>2, SealLocks, SealingLocks, OtherParentStepsLock, ParentCrashLocks
       DEF ParentStep
<1>3. CASE (\E r \in Runs : RequestCancel(r)) \/ UNCHANGED vars
    BY <1>3 DEF RequestCancel, vars, LockInv, LockTypes, WorkersHold, ParentsHold,
       lockVars, workerVars, parentVars
<1> QED  BY <1>1, <1>2, <1>3 DEF Next

(* At most one process writes to the file, and it holds the lock of the run  *)
(* it writes to: for any number of processes and deaths.                    *)
THEOREM WritersExclude == Spec => []OneWriter
<1>1. Init => LockInv
    BY LocksInit
<1>2. LockInv /\ [Next]_vars => LockInv'
    BY LocksNext
<1>3. LockInv => OneWriter
    BY LocksImplyOneWriter
<1> QED  BY <1>1, <1>2, <1>3, PTL DEF Spec

-----------------------------------------------------------------------------
(* Types.  A worker that is about to log its stop has a reason to log.      *)

Reasons == WorkerReasons \cup LossReasons \cup {"none"}

FileTypes == history \in [Runs -> Seq(Event)] /\ torn \in BOOLEAN /\ corrupt \in BOOLEAN

WorkerTypes ==
    /\ next \in [Workers -> Nat]
    /\ result \in [Workers -> WorkerReasons \cup {"none", "raised"}]
    /\ read \in [Workers -> Files]
    /\ \A p \in Workers : pc[p] = "stop" => result[p] \in WorkerReasons

ParentTypes ==
    /\ loss \in [Cli -> LossReasons \cup {"none"}]
    /\ report \in [Cli -> [kind : ReportKinds, reason : Reasons, marked : BOOLEAN]]

OtherTypes == /\ lockFile \subseteq Runs /\ cancel \subseteq Runs
              /\ crashes \in 0 .. MaxCrashes

HostTypeInv == LockTypes /\ FileTypes /\ WorkerTypes /\ ParentTypes /\ OtherTypes

(* Where nobody probes, a run's lock is a process's or nobody's.            *)
ProcessLocks == runLock \in [Runs -> Actors]

LEMMA TypesTogether == HostTypeInv /\ ProcessLocks => TypeOK
BY Zenon DEF HostTypeInv, LockTypes, FileTypes, WorkerTypes, ParentTypes, OtherTypes,
   ProcessLocks, TypeOK, Reasons

LEMMA ProcessLocksNext == LockInv /\ ProcessLocks /\ [Next]_vars => ProcessLocks'
<1> SUFFICES ASSUME LockInv, ProcessLocks, [Next]_vars PROVE ProcessLocks'
    OBVIOUS
<1> USE DEF ProcessLocks, fileVars, lockVars
<1>1. ASSUME NEW p \in Workers, WorkerStep(p) \/ Crash(p) PROVE ProcessLocks'
    <2>1. run[p] \in Runs
        BY DEF LockInv, LockTypes
    <2>2. CASE TakeRunLock(p) \/ ReleaseRun(p) \/ Crash(p)
        BY <2>1, <2>2, AreActors DEF TakeRunLock, ReleaseRun, Crash, Dies
    <2> QED  BY <1>1, <2>2 DEF WorkerStep, BuildSink, Truncate, TakeWriter, CheckFresh,
             CheckResume, LogStart, LogInterrupted, LogResumed, Work, Verdict, LogStop,
             Appends, ReleaseWriter
<1>2. ASSUME NEW c \in Cli, ParentStep(c) \/ ParentCrash(c) PROVE ProcessLocks'
    <2>1. run[c] \in Runs
        BY DEF LockInv, LockTypes, Workers
    <2>2. CASE SealRun(c) \/ SealRead(c) \/ SealStop(c) \/ ParentCrash(c) \/ KillWorker(c)
        BY <2>1, <2>2, AreActors DEF SealRun, SealRead, SealStop, SealUnlock, ParentCrash,
           KillWorker, Dies
    <2> QED  BY <1>2, <2>2 DEF ParentStep, Precheck, Deliver, LoseWorker, SealWriter,
             SealStart
<1>3. CASE (\E r \in Runs : RequestCancel(r)) \/ UNCHANGED vars
    BY <1>3 DEF RequestCancel, vars
<1> QED  BY <1>1, <1>2, <1>3 DEF Next

LEMMA RecordIsEvent ==
    ASSUME NEW k \in Kinds, NEW b \in {"worker", "cli_parent"}, NEW n \in Nat,
           NEW why \in Reasons
    PROVE  Record(k, b, n, why) \in Event
BY DEF Record, Event, Reasons

(* The first stop of a history that has one, and what it says.              *)
LEMMA FirstStop ==
    ASSUME NEW h \in Seq(Event), Stopped(h)
    PROVE  /\ StopReason(h) \in Reasons
           /\ \E i \in Stops(h) : /\ \A j \in Stops(h) : i <= j
                                 /\ StopReason(h) = h[i].reason
<1> DEFINE below == {ss \in Nat \X Nat : ss[1] < ss[2]}
<1>1. Stops(h) \subseteq Nat /\ Stops(h) \subseteq DOMAIN h /\ Stops(h) # {}
    BY DEF Stops, Stopped
<1>2. IsWellFoundedOn(below, Nat)
    BY NatLessThanWellFounded DEF OpToRel
<1>3. PICK m \in Stops(h) : \A j \in Stops(h) : <<j, m>> \notin below
    <2> HIDE DEF below
    <2> QED  BY <1>1, <1>2, WFMin
<1>4. \A j, k \in Nat : j < k => <<j, k>> \in below
    OBVIOUS
<1>5. m \in Stops(h) /\ \A j \in Stops(h) : m <= j
    <2> HIDE DEF below
    <2>1. \A j \in Stops(h) : ~(j < m)
        BY <1>1, <1>3, <1>4
    <2> QED  BY <1>1, <2>1
<1>6. PICK first : first = CHOOSE i \in Stops(h) : \A j \in Stops(h) : i <= j
    OBVIOUS
<1>7. first \in Stops(h) /\ \A j \in Stops(h) : first <= j
    BY <1>5, <1>6
<1>8. StopReason(h) = h[first].reason
    BY <1>6 DEF StopReason
<1>9. h[first] \in Event
    BY <1>1, <1>7
<1> QED  BY <1>7, <1>8, <1>9 DEF Event, Reasons

LEMMA WriteTypes ==
    ASSUME history \in [Runs -> Seq(Event)], torn \in BOOLEAN, corrupt \in BOOLEAN,
           NEW r \in Runs, NEW e \in Event, Write(r, e)
    PROVE  history' \in [Runs -> Seq(Event)] /\ torn' \in BOOLEAN /\ corrupt' \in BOOLEAN
<1>1. torn' \in BOOLEAN /\ corrupt' \in BOOLEAN
    BY Zenon DEF Write
<1>2. Append(history[r], e) \in Seq(Event)
    OBVIOUS
<1>3. history' \in [Runs -> Seq(Event)]
    BY <1>2 DEF Write
<1> QED  BY <1>1, <1>3

LEMMA HostTypesInit == Init => HostTypeInv
<1> SUFFICES ASSUME Init PROVE HostTypeInv
    OBVIOUS
<1>1. NothingRead \in Files
    BY DEF NothingRead, Files
<1>2. FileTypes
    <2>1. <<>> \in Seq(Event) /\ history = [r \in Runs |-> <<>>]
        BY DEF Init
    <2>2. torn \in BOOLEAN /\ corrupt \in BOOLEAN
        BY Zenon DEF Init
    <2> QED  BY <2>1, <2>2, Zenon DEF FileTypes
<1>3. WorkerTypes
    BY <1>1 DEF Init, WorkerTypes
<1>4. ParentTypes
    BY DEF Init, ParentTypes, NoReport, Report, ReportKinds, Reasons
<1>5. OtherTypes
    BY ConstantsAssumption DEF Init, OtherTypes
<1>6. LockTypes
    BY LocksInit DEF LockInv
<1> QED  BY <1>2, <1>3, <1>4, <1>5, <1>6, Zenon DEF HostTypeInv

LEMMA FileTypesNext ==
    ASSUME HostTypeInv, Next PROVE FileTypes'
<1>1. ASSUME UNCHANGED fileVars PROVE FileTypes'
    BY <1>1, Zenon DEF HostTypeInv, FileTypes, fileVars
<1>2. ASSUME UNCHANGED <<history, corrupt>>, torn' \in BOOLEAN PROVE FileTypes'
    BY <1>2, Zenon DEF HostTypeInv, FileTypes
<1>3. ASSUME NEW r \in Runs, NEW e \in Event, Write(r, e) PROVE FileTypes'
    BY <1>3, WriteTypes DEF HostTypeInv, FileTypes
<1>4. ASSUME NEW p \in Workers, WorkerStep(p) PROVE FileTypes'
    <2>1. CASE Truncate(p)
        BY <2>1 DEF Truncate, HostTypeInv, WorkerTypes, FileTypes, Files
    <2>2. ASSUME NEW k \in Kinds, NEW why \in Reasons, NEW at, Appends(p, k, why, at)
          PROVE  FileTypes'
        <3>1. run[p] \in Runs /\ next[p] \in Nat
            BY DEF HostTypeInv, LockTypes, WorkerTypes
        <3> QED  BY <1>3, <2>2, <3>1, RecordIsEvent DEF Appends
    <2>3. CASE LogStart(p) \/ LogInterrupted(p) \/ LogResumed(p) \/ Work(p)
        BY <2>2, <2>3 DEF LogStart, LogInterrupted, LogResumed, Work, Kinds, Reasons
    <2>4. CASE LogStop(p)
        <3>1. result[p] \in Reasons
            BY <2>4 DEF LogStop, HostTypeInv, WorkerTypes, Reasons
        <3> QED  BY <2>2, <2>4, <3>1 DEF LogStop, Kinds
    <2>5. CASE \/ BuildSink(p) \/ TakeWriter(p) \/ TakeRunLock(p) \/ CheckFresh(p)
               \/ CheckResume(p) \/ Verdict(p) \/ ReleaseRun(p) \/ ReleaseWriter(p)
        BY <1>1, <2>5 DEF BuildSink, TakeWriter, TakeRunLock, CheckFresh, CheckResume,
           Verdict, ReleaseRun, ReleaseWriter
    <2> QED  BY <1>4, <2>1, <2>3, <2>4, <2>5 DEF WorkerStep
<1>5. ASSUME NEW p \in Workers, Dies(p) PROVE FileTypes'
    <2>1. torn \in BOOLEAN
        BY Zenon DEF HostTypeInv, FileTypes
    <2>2. torn' \in BOOLEAN /\ UNCHANGED <<history, corrupt>>
        BY <1>5, <2>1 DEF Dies
    <2> QED  BY <1>2, <2>2
<1>6. ASSUME NEW c \in Cli, ParentStep(c) PROVE FileTypes'
    <2> USE DEF Workers
    <2>1. CASE SealStart(c) \/ SealStop(c)
        <3>1. /\ run[c] \in Runs /\ Len(history[run[c]]) \in Nat /\ loss[c] \in Reasons
              /\ "none" \in Reasons
            BY DEF HostTypeInv, LockTypes, FileTypes, ParentTypes, Reasons
        <3> QED  BY <1>3, <2>1, <3>1, RecordIsEvent
                 DEF SealStart, SealStop, ParentAppends, Kinds
    <2>2. CASE SealRead(c)
        BY <1>2, <2>2 DEF SealRead
    <2>3. CASE KillWorker(c)
        BY <1>1, <1>5, <2>3 DEF KillWorker
    <2>4. CASE Precheck(c) \/ Deliver(c) \/ LoseWorker(c) \/ SealWriter(c) \/ SealRun(c)
        BY <1>1, <2>4 DEF Precheck, Deliver, LoseWorker, SealWriter, SealRun
    <2> QED  BY <1>6, <2>1, <2>2, <2>3, <2>4 DEF ParentStep
<1>7. ASSUME NEW p \in Workers, Crash(p) PROVE FileTypes'
    BY <1>5, <1>7 DEF Crash
<1>8. ASSUME NEW c \in Cli, ParentCrash(c) PROVE FileTypes'
    <2>1. torn \in BOOLEAN
        BY Zenon DEF HostTypeInv, FileTypes
    <2>2. torn' \in BOOLEAN /\ UNCHANGED <<history, corrupt>>
        BY <1>8, <2>1 DEF ParentCrash
    <2> QED  BY <1>2, <2>2
<1>9. ASSUME NEW r \in Runs, RequestCancel(r) PROVE FileTypes'
    BY <1>1, <1>9 DEF RequestCancel
<1> QED  BY <1>4, <1>6, <1>7, <1>8, <1>9 DEF Next

LEMMA WorkerTypesNext ==
    ASSUME HostTypeInv, Next PROVE WorkerTypes'
<1>1. ASSUME NEW p \in Workers, NEW at, Goto(p, at), at # "stop",
             UNCHANGED <<next, result, read>>
      PROVE  WorkerTypes'
    BY <1>1 DEF HostTypeInv, LockTypes, WorkerTypes, Goto
<1>2. ASSUME NEW p \in Workers, NEW at, Raises(p, at), at # "stop" PROVE WorkerTypes'
    BY <1>2 DEF HostTypeInv, LockTypes, WorkerTypes, Goto, Raises
<1>3. ASSUME UNCHANGED workerVars PROVE WorkerTypes'
    BY <1>3 DEF HostTypeInv, WorkerTypes, workerVars
<1>4. ASSUME NEW p \in Workers, WorkerStep(p) PROVE WorkerTypes'
    <2>1. CASE BuildSink(p)
        <3>1. Contents \in Files /\ NothingRead \in Files
            <4>1. corrupt \in BOOLEAN /\ FALSE \in BOOLEAN
                BY Zenon DEF HostTypeInv, FileTypes
            <4>2. history \in [Runs -> Seq(Event)] /\ [r \in Runs |-> <<>>] \in [Runs -> Seq(Event)]
                BY DEF HostTypeInv, FileTypes
            <4> QED  BY <4>1, <4>2, Zenon DEF Contents, NothingRead, Files
        <3>2. CASE torn /\ p \in Truncating
            BY <2>1, <3>1, <3>2 DEF BuildSink, Goto, HostTypeInv, LockTypes, WorkerTypes
        <3> QED  BY <1>1, <1>2, <2>1, <3>2 DEF BuildSink
    <2>2. CASE Truncate(p)
        <3>1. NothingRead \in Files
            BY DEF NothingRead, Files
        <3> QED  BY <2>2, <3>1 DEF Truncate, Goto, HostTypeInv, LockTypes, WorkerTypes
    <2>3. CASE TakeWriter(p) \/ TakeRunLock(p) \/ CheckFresh(p) \/ ReleaseRun(p)
               \/ ReleaseWriter(p)
        BY <1>1, <1>2, <2>3 DEF TakeWriter, TakeRunLock, CheckFresh, ReleaseRun, ReleaseWriter
    <2>4. CASE CheckResume(p)
        <3>1. Len(history[run[p]]) \in Nat
            BY DEF HostTypeInv, LockTypes, FileTypes
        <3> QED  BY <1>2, <2>4, <3>1
                 DEF CheckResume, Goto, HostTypeInv, LockTypes, WorkerTypes
    <2>5. CASE LogStart(p) \/ LogInterrupted(p) \/ LogResumed(p) \/ Work(p) \/ LogStop(p)
        BY <2>5 DEF LogStart, LogInterrupted, LogResumed, Work, LogStop, Appends, Goto,
           HostTypeInv, LockTypes, WorkerTypes
    <2>6. CASE Verdict(p)
        BY <2>6 DEF Verdict, Goto, HostTypeInv, LockTypes, WorkerTypes
    <2> QED  BY <1>4, <2>1, <2>2, <2>3, <2>4, <2>5, <2>6 DEF WorkerStep
<1>5. ASSUME NEW p \in Workers, Dies(p) PROVE WorkerTypes'
    BY <1>1, <1>5 DEF Dies, Goto
<1>6. ASSUME NEW c \in Cli, ParentStep(c) PROVE WorkerTypes'
    <2> USE DEF Workers
    <2>1. CASE Precheck(c)
        BY <1>1, <2>1 DEF Precheck, HostTypeInv, WorkerTypes
    <2>2. CASE KillWorker(c)
        BY <1>3, <1>5, <2>2 DEF KillWorker
    <2>3. CASE \/ Deliver(c) \/ LoseWorker(c) \/ SealWriter(c) \/ SealRun(c)
               \/ SealRead(c) \/ SealStart(c) \/ SealStop(c)
        BY <1>3, <2>3 DEF Deliver, LoseWorker, SealWriter, SealRun, SealRead, SealStart,
           SealStop
    <2> QED  BY <1>6, <2>1, <2>2, <2>3 DEF ParentStep
<1>7. ASSUME NEW p \in Workers, Crash(p) PROVE WorkerTypes'
    BY <1>5, <1>7 DEF Crash
<1>8. ASSUME NEW c \in Cli, ParentCrash(c) PROVE WorkerTypes'
    BY <1>3, <1>8 DEF ParentCrash
<1>9. ASSUME NEW r \in Runs, RequestCancel(r) PROVE WorkerTypes'
    BY <1>3, <1>9 DEF RequestCancel
<1> QED  BY <1>4, <1>6, <1>7, <1>8, <1>9 DEF Next

LEMMA ParentTypesNext ==
    ASSUME HostTypeInv, Next PROVE ParentTypes'
<1>1. ASSUME UNCHANGED <<loss, report>> PROVE ParentTypes'
    BY <1>1 DEF HostTypeInv, ParentTypes
<1>2. ASSUME NEW c \in Cli, NEW k \in ReportKinds, NEW why \in Reasons, NEW m \in BOOLEAN,
             Ends(c, Report(k, why, m))
      PROVE  ParentTypes'
    BY <1>2 DEF HostTypeInv, ParentTypes, Ends, Report
<1>3. ASSUME NEW c \in Cli, ParentStep(c) PROVE ParentTypes'
    <2>1. loss[c] \in Reasons /\ "none" \in Reasons
        BY DEF HostTypeInv, ParentTypes, Reasons
    <2>2. CASE Precheck(c) \/ SealWriter(c) \/ SealRun(c) \/ SealStart(c) \/ SealStop(c)
        BY <1>1, <1>2, <2>1, <2>2 DEF Precheck, SealWriter, SealRun, SealStart, SealStop,
           Answers, AnswersUnsealed, ReportKinds
    <2>3. CASE Deliver(c)
        BY <1>2, <2>3 DEF Deliver, Answers, ReportKinds, Reasons
    <2>4. CASE LoseWorker(c) \/ KillWorker(c)
        BY <2>4 DEF LoseWorker, KillWorker, LossReasons, HostTypeInv, ParentTypes
    <2>5. CASE SealRead(c)
        <3> DEFINE h == history[run[c]]
        <3>1. h \in Seq(Event)
            BY DEF HostTypeInv, LockTypes, FileTypes, Workers
        <3>2. Stopped(h) => StopReason(h) \in Reasons
            BY <3>1, FirstStop
        <3> QED  BY <1>1, <1>2, <2>1, <2>5, <3>2 DEF SealRead, Answers, AnswersUnsealed,
                 ReportKinds
    <2> QED  BY <1>3, <2>2, <2>3, <2>4, <2>5 DEF ParentStep
<1>4. ASSUME NEW p \in Workers, WorkerStep(p) \/ Crash(p) PROVE UNCHANGED <<loss, report>>
    BY <1>4 DEF WorkerStep, Crash, parentVars, BuildSink, Truncate, TakeWriter,
       TakeRunLock, CheckFresh, CheckResume, LogStart, LogInterrupted, LogResumed, Work,
       Verdict, LogStop, Appends, ReleaseRun, ReleaseWriter
<1>5. ASSUME NEW c \in Cli, ParentCrash(c) PROVE UNCHANGED <<loss, report>>
    BY <1>5 DEF ParentCrash
<1>6. ASSUME NEW r \in Runs, RequestCancel(r) PROVE UNCHANGED <<loss, report>>
    BY <1>6 DEF RequestCancel, parentVars
<1> QED  BY <1>1, <1>3, <1>4, <1>5, <1>6 DEF Next

LEMMA OtherTypesNext ==
    ASSUME HostTypeInv, Next PROVE OtherTypes'
<1> USE ConstantsAssumption
<1>1. ASSUME lockFile' \subseteq Runs, UNCHANGED <<cancel, crashes>> PROVE OtherTypes'
    BY <1>1 DEF HostTypeInv, OtherTypes
<1>2. ASSUME UNCHANGED <<lockFile, cancel>>, crashes < MaxCrashes, crashes' = crashes + 1
      PROVE  OtherTypes'
    BY <1>2 DEF HostTypeInv, OtherTypes
<1>3. lockFile \subseteq Runs
    BY DEF HostTypeInv, OtherTypes
<1>4. ASSUME NEW p \in Workers, WorkerStep(p) PROVE OtherTypes'
    <2>1. run[p] \in Runs
        BY DEF HostTypeInv, LockTypes
    <2>2. lockFile' \subseteq Runs /\ UNCHANGED <<cancel, crashes>>
        BY <1>3, <1>4, <2>1 DEF WorkerStep, lockVars, BuildSink, Truncate, TakeWriter,
           TakeRunLock, CheckFresh, CheckResume, LogStart, LogInterrupted, LogResumed,
           Work, Verdict, LogStop, Appends, ReleaseRun, ReleaseWriter
    <2> QED  BY <1>1, <2>2
<1>5. ASSUME NEW c \in Cli, ParentStep(c) PROVE OtherTypes'
    <2>1. run[c] \in Runs
        BY DEF HostTypeInv, LockTypes, Workers
    <2>2. lockFile' \subseteq Runs /\ UNCHANGED <<cancel, crashes>>
        BY <1>3, <1>5, <2>1 DEF ParentStep, lockVars, Precheck, Deliver, LoseWorker,
           KillWorker, Dies, SealWriter, SealRun, SealRead, SealUnlock, SealStart, SealStop
    <2> QED  BY <1>1, <2>2
<1>6. ASSUME NEW p \in Workers, Crash(p) PROVE OtherTypes'
    BY <1>2, <1>6 DEF Crash, Dies
<1>7. ASSUME NEW c \in Cli, ParentCrash(c) PROVE OtherTypes'
    BY <1>2, <1>7 DEF ParentCrash
<1>8. ASSUME NEW r \in Runs, RequestCancel(r) PROVE OtherTypes'
    BY <1>8 DEF RequestCancel, lockVars, HostTypeInv, OtherTypes
<1> QED  BY <1>4, <1>5, <1>6, <1>7, <1>8 DEF Next

LEMMA HostTypesNext ==
    HostTypeInv /\ LockInv' /\ [Next]_vars => HostTypeInv'
<1> SUFFICES ASSUME HostTypeInv, LockInv', [Next]_vars PROVE HostTypeInv'
    OBVIOUS
<1>1. CASE Next
    BY <1>1, FileTypesNext, WorkerTypesNext, ParentTypesNext, OtherTypesNext, Zenon
       DEF HostTypeInv, LockInv
<1>2. CASE UNCHANGED vars
    <2>1. FileTypes'
        BY <1>2, Zenon DEF vars, fileVars, HostTypeInv, FileTypes
    <2>2. WorkerTypes' /\ ParentTypes' /\ OtherTypes'
        BY <1>2 DEF vars, workerVars, parentVars, lockVars, HostTypeInv, WorkerTypes,
           ParentTypes, OtherTypes
    <2> QED  BY <2>1, <2>2, Zenon DEF HostTypeInv, LockInv
<1> QED  BY <1>1, <1>2

(* Every variable of the processes, the locks and the file keeps its type.   *)
THEOREM HostTypes == Spec => []TypeOK
<1>1. Init => LockInv /\ HostTypeInv /\ ProcessLocks
    BY LocksInit, HostTypesInit, AreActors DEF Init, ProcessLocks
<1>2. LockInv /\ HostTypeInv /\ [Next]_vars => LockInv' /\ HostTypeInv'
    BY LocksNext, HostTypesNext
<1>3. LockInv /\ ProcessLocks /\ [Next]_vars => ProcessLocks'
    BY ProcessLocksNext
<1>4. HostTypeInv /\ ProcessLocks => TypeOK
    BY TypesTogether
<1> QED  BY <1>1, <1>2, <1>3, <1>4, PTL DEF Spec

-----------------------------------------------------------------------------
(* Histories.  Where no process truncates, what a process has found out      *)
(* about a history under its locks stays true until it acts on it.          *)

ContinuingPcs == {"interrupt", "resume", "running", "stop"}
EarlyPcs      == {"unborn", "sink", "writer", "runLock", "check", "start"}
LaterPcs      == {"releaseRun", "releaseWriter", "exited"}

NotTruncating == \A p \in Workers : pc[p] # "truncate"

Unspawned == \A c \in Cli : parent[c] = "precheck" => pc[c] = "unborn"

FirstNumbers == \A p \in Workers \ Resume : pc[p] \in EarlyPcs => next[p] = 0

WritersMay ==
    \A p \in Workers :
        /\ pc[p] = "start" => ~Begun(history[run[p]])
        /\ pc[p] \in ContinuingPcs => Open(history[run[p]])
        /\ pc[p] \in WritingPcs => next[p] = Len(history[run[p]])

SealersMay ==
    \A c \in Cli :
        /\ parent[c] = "sealStart" => ~Begun(history[run[c]])
        /\ parent[c] = "sealStop" => Open(history[run[c]])

SaysStop(r, why) == Stopped(history[r]) /\ StopReason(history[r]) = why

StopsLogged ==
    \A p \in Workers :
        pc[p] \in LaterPcs /\ result[p] \in WorkerReasons => SaysStop(run[p], result[p])

(* The answers that are to name the logged reason.                          *)
Names(says) == says.kind \in {"document", "lost"} /\ ~says.marked

ReportsLogged ==
    \A c \in Cli :
        Names(report[c]) => SaysStop(run[c], report[c].reason)

HistoryInv ==
    /\ NotTruncating /\ Unspawned /\ FirstNumbers
    /\ ~corrupt => /\ \A r \in Runs : ValidHistory(history[r])
                   /\ WritersMay /\ SealersMay /\ StopsLogged /\ ReportsLogged

(* A record that is the first exactly when it is run_started extends a valid *)
(* open history to a valid one.                                             *)
LEMMA AppendValid ==
    ASSUME NEW h \in Seq(Event), ValidHistory(h), ~Stopped(h), NEW e \in Event,
           e.seq = Len(h), ~Begun(h) <=> e.kind = "run_started"
    PROVE  LET g == Append(h, e)
           IN  /\ ValidHistory(g) /\ Begun(g)
               /\ Stopped(g) <=> e.kind = "run_stopped"
               /\ e.kind = "run_stopped" => StopReason(g) = e.reason
<1> DEFINE g == Append(h, e)
           n == Len(h)
<1>1. /\ g \in Seq(Event) /\ Len(g) = n + 1 /\ n \in Nat
      /\ DOMAIN g = 1 .. n + 1 /\ DOMAIN h = 1 .. n
      /\ \A i \in 1 .. n : g[i] = h[i]
      /\ g[n + 1] = e
    OBVIOUS
<1> HIDE DEF g
<1>2. \A i \in 1 .. n : h[i].kind # "run_stopped"
    BY <1>1 DEF Stopped, Stops
<1>3. Stops(g) = IF e.kind = "run_stopped" THEN {n + 1} ELSE {}
    BY <1>1, <1>2 DEF Stops
<1>4. Begun(g)
    BY <1>1 DEF Begun
<1>5. Contiguous(g)
    <2>1. \A i \in 1 .. n : h[i].seq = i - 1
        BY <1>1 DEF ValidHistory, Contiguous
    <2> QED  BY <1>1, <2>1 DEF Contiguous
<1>6. Begun(h) <=> n # 0
    BY <1>1 DEF Begun
<1>7. g[1].kind = "run_started"
    BY <1>1, <1>6 DEF ValidHistory
<1>8. \A i \in DOMAIN g : g[i].kind = "run_started" => i = 1
    BY <1>1, <1>6 DEF ValidHistory
<1>9. \A i \in DOMAIN g : g[i].kind = "run_stopped" => i = Len(g)
    BY <1>1, <1>2
<1>10. ValidHistory(g)
    BY <1>5, <1>7, <1>8, <1>9 DEF ValidHistory
<1>11. e.kind = "run_stopped" => StopReason(g) = e.reason
    <2> HAVE e.kind = "run_stopped"
    <2>1. Stops(g) = {n + 1}
        BY <1>3
    <2>2. (CHOOSE i \in Stops(g) : \A j \in Stops(g) : i <= j) = n + 1
        BY <1>1, <2>1
    <2> QED  BY <1>1, <2>2 DEF StopReason
<1> QED  BY <1>3, <1>4, <1>10, <1>11 DEF Stopped, g

(* What one append does to every history of a file that stays readable.     *)
LEMMA WriteExtends ==
    ASSUME HostTypeInv, HistoryInv, NEW r \in Runs, NEW e \in Event, Write(r, e), ~corrupt',
           e.seq = Len(history[r]), ~Stopped(history[r]),
           ~Begun(history[r]) <=> e.kind = "run_started"
    PROVE  /\ ~corrupt
           /\ \A s \in Runs : ValidHistory(history'[s])
           /\ \A s \in Runs \ {r} : history'[s] = history[s]
           /\ Len(history'[r]) = Len(history[r]) + 1
           /\ Begun(history'[r])
           /\ Stopped(history'[r]) <=> e.kind = "run_stopped"
           /\ e.kind = "run_stopped" => StopReason(history'[r]) = e.reason
<1>1. ~corrupt /\ ~torn
    BY Zenon DEF Write
<1>2. history' = [history EXCEPT ![r] = Append(@, e)]
    BY <1>1, Zenon DEF Write
<1>3. history \in [Runs -> Seq(Event)] /\ \A s \in Runs : ValidHistory(history[s])
    BY <1>1 DEF HostTypeInv, FileTypes, HistoryInv
<1>4. history'[r] = Append(history[r], e) /\ \A s \in Runs \ {r} : history'[s] = history[s]
    BY <1>2, <1>3
<1>5. history[r] \in Seq(Event) /\ ValidHistory(history[r])
    BY <1>3
<1>6. Len(history'[r]) = Len(history[r]) + 1
    BY <1>4, <1>5
<1>7. /\ ValidHistory(history'[r]) /\ Begun(history'[r])
      /\ Stopped(history'[r]) <=> e.kind = "run_stopped"
      /\ e.kind = "run_stopped" => StopReason(history'[r]) = e.reason
    BY <1>4, <1>5, AppendValid
<1>8. \A s \in Runs : ValidHistory(history'[s])
    BY <1>3, <1>4, <1>7
<1> QED  BY <1>1, <1>4, <1>6, <1>7, <1>8

(* A parent that seals has given its worker up for a reason, and one whose   *)
(* document is marked ended with that reason.                               *)
MarksInv ==
    \A c \in Cli :
        /\ parent[c] \in {"sealWriter", "sealRun", "sealRead"} => loss[c] \in LossReasons
        /\ report[c].marked => /\ parent[c] = "done"
                               /\ report[c].kind = "document"
                               /\ report[c].reason = loss[c]
                               /\ loss[c] \in LossReasons

HostInv == LockInv /\ HostTypeInv /\ MarksInv /\ HistoryInv

LEMMA BegunAndStopped ==
    /\ \A h : ~Begun(h) => ~Stopped(h)
    /\ \A h : Open(h) => Begun(h) /\ ~Stopped(h)
BY DEF Begun, Stopped, Stops, Open

LEMMA HistoryInit == Init => HistoryInv
<1> SUFFICES ASSUME Init PROVE HistoryInv
    OBVIOUS
<1>1. NotTruncating /\ Unspawned /\ FirstNumbers /\ WritersMay /\ SealersMay
    BY DEF Init, NotTruncating, Unspawned, FirstNumbers, WritersMay, SealersMay, WritingPcs,
       ContinuingPcs, Workers
<1>2. StopsLogged /\ ReportsLogged
    BY DEF Init, StopsLogged, ReportsLogged, Names, WorkerReasons, NoReport, Report
<1>3. ASSUME NEW r \in Runs PROVE ValidHistory(history[r])
    <2>1. history[r] = <<>>
        BY DEF Init
    <2> QED  BY <2>1 DEF ValidHistory, Contiguous, Begun
<1> QED  BY <1>1, <1>2, <1>3 DEF HistoryInv

(* A worker's append: the record it adds is the one its history lacks.      *)
LEMMA WorkerWrites ==
    ASSUME HostInv, NEW p \in Workers, NEW k \in Kinds, NEW why \in Reasons,
           NEW at \in {"resume", "running", "releaseRun"},
           Appends(p, k, why, at), UNCHANGED result, pc[p] \in WritingPcs,
           k = "run_started" <=> pc[p] = "start",
           k = "run_stopped" <=> at = "releaseRun",
           k = "run_stopped" => why = result[p]
    PROVE  HistoryInv'
<1> DEFINE r == run[p]
           e == Record(k, "worker", next[p], why)
<1>1. /\ r \in Runs /\ e \in Event /\ Write(r, e)
      /\ e.seq = next[p] /\ e.kind = k /\ e.reason = why
    BY RecordIsEvent DEF HostInv, HostTypeInv, LockTypes, WorkerTypes, Appends, Record
<1>2. /\ pc' = [pc EXCEPT ![p] = at] /\ next' = [next EXCEPT ![p] = @ + 1]
      /\ pc \in [Workers -> WorkerPcs] /\ next \in [Workers -> Nat]
      /\ UNCHANGED <<run, parent, report, result>>
    BY DEF Appends, Goto, parentVars, HostInv, HostTypeInv, LockTypes, WorkerTypes
<1>3. NotTruncating'
    BY <1>2 DEF HostInv, HistoryInv, NotTruncating
<1>4. Unspawned'
    BY <1>2 DEF HostInv, HistoryInv, Unspawned, WritingPcs, Workers
<1>5. FirstNumbers'
    BY <1>2 DEF HostInv, HistoryInv, FirstNumbers, EarlyPcs
<1>6. OneWriter
    BY LocksImplyOneWriter DEF HostInv
<1>7. ASSUME ~corrupt'
      PROVE  /\ \A s \in Runs : ValidHistory(history'[s])
             /\ WritersMay' /\ SealersMay' /\ StopsLogged' /\ ReportsLogged'
    <2>1. ~corrupt
        BY <1>1, <1>7, Zenon DEF Write
    <2>2. /\ next[p] = Len(history[r])
          /\ pc[p] = "start" => ~Begun(history[r])
          /\ pc[p] # "start" => Open(history[r])
        BY <2>1 DEF HostInv, HistoryInv, WritersMay, WritingPcs, ContinuingPcs
    <2>3. ~Stopped(history[r]) /\ (~Begun(history[r]) <=> k = "run_started")
        BY <2>2, BegunAndStopped
    <2>4. /\ \A s \in Runs : ValidHistory(history'[s])
          /\ \A s \in Runs \ {r} : history'[s] = history[s]
          /\ Len(history'[r]) = Len(history[r]) + 1
          /\ Begun(history'[r])
          /\ Stopped(history'[r]) <=> k = "run_stopped"
          /\ k = "run_stopped" => StopReason(history'[r]) = why
        <3> HIDE DEF r, e
        <3> QED  BY <1>1, <1>7, <2>2, <2>3, WriteExtends DEF HostInv
    <2>5. WritersMay'
        <3>1. ASSUME NEW q \in Workers, q # p PROVE pc'[q] = pc[q] /\ pc[q] \notin WritingPcs
            BY <1>2, <1>6, <3>1 DEF OneWriter
        <3>2. at \in WritingPcs => /\ Open(history'[r]) /\ at # "start"
                                   /\ next'[p] = Len(history'[r])
            BY <1>2, <2>2, <2>4 DEF WritingPcs, Open
        <3> QED  BY <1>2, <3>1, <3>2 DEF WritersMay, WritingPcs, ContinuingPcs
    <2>6. SealersMay'
        BY <1>2, <1>6 DEF SealersMay, OneWriter, SealingPcs
    <2>7. \A s \in Runs : \A x : SaysStop(s, x) => SaysStop(s, x)'
        BY <2>3, <2>4 DEF SaysStop
    <2>8. StopsLogged'
        <3>1. ASSUME NEW q \in Workers, q # p, pc'[q] \in LaterPcs, result'[q] \in WorkerReasons
              PROVE  SaysStop(run[q], result[q])'
            <4>1. SaysStop(run[q], result[q]) /\ run[q] \in Runs
                BY <1>2, <2>1, <3>1 DEF HostInv, HistoryInv, StopsLogged, LockInv, LockTypes
            <4> QED  BY <1>2, <2>7, <4>1
        <3>2. ASSUME pc'[p] \in LaterPcs PROVE SaysStop(run[p], result[p])'
            <4>1. at = "releaseRun"
                BY <1>2, <3>2 DEF LaterPcs
            <4> QED  BY <1>2, <2>4, <4>1 DEF SaysStop
        <3> QED  BY <3>1, <3>2 DEF StopsLogged
    <2>9. ReportsLogged'
        <3>1. ASSUME NEW c \in Cli, Names(report'[c])
              PROVE  SaysStop(run[c], report[c].reason)'
            <4>1. SaysStop(run[c], report[c].reason) /\ run[c] \in Runs
                BY <1>2, <2>1, <3>1
                   DEF HostInv, HistoryInv, ReportsLogged, LockInv, LockTypes, Workers
            <4> QED  BY <1>2, <2>7, <4>1
        <3> QED  BY <3>1 DEF ReportsLogged
    <2> QED  BY <2>4, <2>5, <2>6, <2>8, <2>9
<1> QED  BY <1>3, <1>4, <1>5, <1>7, Zenon DEF HistoryInv

(* A worker's step that leaves the file alone: what it needs to know of its  *)
(* history to be where it goes.                                             *)
LEMMA WorkerWaits ==
    ASSUME HostInv, NEW p \in Workers, NEW at \in WorkerPcs \ {"unborn", "truncate"},
           Goto(p, at), pc[p] # "unborn",
           UNCHANGED <<run, history, corrupt, parent, report>>,
           \A q \in Workers \ {p} : next'[q] = next[q] /\ result'[q] = result[q],
           at \in EarlyPcs /\ p \notin Resume => next'[p] = 0,
           ~corrupt => /\ at = "start" => ~Begun(history[run[p]])
                       /\ at \in ContinuingPcs => Open(history[run[p]])
                       /\ at \in WritingPcs => next'[p] = Len(history[run[p]])
                       /\ at \in LaterPcs /\ result'[p] \in WorkerReasons =>
                             SaysStop(run[p], result'[p])
    PROVE  HistoryInv'
<1>1. pc' = [pc EXCEPT ![p] = at] /\ pc \in [Workers -> WorkerPcs]
    BY DEF Goto, HostInv, LockInv, LockTypes
<1>2. pc'[p] = at /\ \A q \in Workers \ {p} : pc'[q] = pc[q]
    BY <1>1
<1>3. NotTruncating' /\ FirstNumbers'
    BY <1>2 DEF HostInv, HistoryInv, NotTruncating, FirstNumbers
<1>4. Unspawned'
    BY <1>2 DEF HostInv, HistoryInv, Unspawned, Workers
<1>5. ASSUME ~corrupt'
      PROVE  /\ \A s \in Runs : ValidHistory(history'[s])
             /\ WritersMay' /\ SealersMay' /\ StopsLogged' /\ ReportsLogged'
    <2>1. ~corrupt /\ \A s \in Runs : ValidHistory(history'[s])
        BY <1>5 DEF HostInv, HistoryInv
    <2>2. WritersMay' /\ SealersMay'
        BY <1>2, <2>1 DEF HostInv, HistoryInv, WritersMay, SealersMay
    <2>3. StopsLogged' /\ ReportsLogged'
        BY <1>2, <2>1 DEF HostInv, HistoryInv, StopsLogged, ReportsLogged, SaysStop
    <2> QED  BY <2>1, <2>2, <2>3
<1> QED  BY <1>3, <1>4, <1>5, Zenon DEF HistoryInv

LEMMA WorkerStepHistory ==
    ASSUME Truncating = {}, HostInv, NEW p \in Workers, WorkerStep(p)
    PROVE  HistoryInv'
<1> USE DEF parentVars, workerVars, fileVars
<1>1. /\ next \in [Workers -> Nat] /\ run \in [Workers -> Runs]
      /\ result \in [Workers -> WorkerReasons \cup {"none", "raised"}]
      /\ \A q \in Workers : pc[q] = "stop" => result[q] \in WorkerReasons
      /\ history \in [Runs -> Seq(Event)]
      /\ pc[p] # "truncate"
      /\ p \notin Resume /\ pc[p] \in EarlyPcs => next[p] = 0
    BY DEF HostInv, HostTypeInv, WorkerTypes, LockTypes, FileTypes, HistoryInv, NotTruncating,
       FirstNumbers
<1>2. ASSUME NEW at \in {"exited", "releaseWriter", "releaseRun"}, Raises(p, at),
             pc[p] # "unborn", UNCHANGED <<run, history, corrupt, parent, report>>
      PROVE  HistoryInv'
    BY <1>1, <1>2, WorkerWaits DEF Raises, WorkerPcs, WriterPcs, RunLockPcs, WritingPcs,
       EndedPcs, EarlyPcs, ContinuingPcs, WorkerReasons
<1>3. CASE BuildSink(p) \/ TakeWriter(p) \/ TakeRunLock(p)
    <2>1. /\ pc[p] \in EarlyPcs \ {"unborn"}
          /\ UNCHANGED <<run, history, corrupt, parent, report>>
        BY <1>3 DEF BuildSink, TakeWriter, TakeRunLock, EarlyPcs
    <2>2. \/ \E at \in {"exited", "releaseWriter"} : Raises(p, at)
          \/ \E at \in {"writer", "runLock", "check"} : Goto(p, at) /\ UNCHANGED <<next, result>>
        BY <1>3 DEF BuildSink, TakeWriter, TakeRunLock
    <2>3. CASE \E at \in {"writer", "runLock", "check"} : Goto(p, at) /\ UNCHANGED <<next, result>>
        BY <1>1, <2>1, <2>3, WorkerWaits DEF WorkerPcs, WriterPcs, RunLockPcs, WritingPcs,
           EndedPcs, EarlyPcs, ContinuingPcs, LaterPcs
    <2> QED  BY <1>2, <2>1, <2>2, <2>3
<1>4. CASE CheckFresh(p)
    <2>1. /\ pc[p] = "check" /\ p \notin Resume
          /\ UNCHANGED <<run, history, corrupt, parent, report>>
        BY <1>4 DEF CheckFresh
    <2>2. CASE Goto(p, "start") /\ UNCHANGED <<next, result>> /\ ~Begun(history[run[p]])
        <3>1. next'[p] = 0 /\ Len(history[run[p]]) = 0
            BY <1>1, <2>1, <2>2 DEF EarlyPcs, Begun
        <3> QED  BY <2>1, <2>2, <3>1, WorkerWaits DEF WorkerPcs, WriterPcs, RunLockPcs,
                 WritingPcs, ContinuingPcs, LaterPcs
    <2>3. CASE Raises(p, "releaseRun")
        BY <1>2, <2>1, <2>3
    <2>4. ~HoldsARun => ~Begun(history[run[p]])
        BY <1>1 DEF HoldsARun
    <2> QED  BY <1>4, <2>2, <2>3, <2>4 DEF CheckFresh
<1>5. CASE CheckResume(p)
    <2>1. /\ pc[p] = "check"
          /\ UNCHANGED <<run, history, corrupt, parent, report>>
        BY <1>5 DEF CheckResume
    <2>2. CASE /\ Open(history[run[p]]) /\ Goto(p, "interrupt") /\ UNCHANGED result
               /\ next' = [next EXCEPT ![p] = Len(history[run[p]])]
        BY <1>1, <2>1, <2>2, WorkerWaits DEF WorkerPcs, WriterPcs, RunLockPcs, WritingPcs,
           EarlyPcs, ContinuingPcs, LaterPcs
    <2>3. CASE Raises(p, "releaseRun")
        BY <1>2, <2>1, <2>3
    <2> QED  BY <1>5, <2>2, <2>3 DEF CheckResume
<1>6. CASE LogStart(p) \/ LogInterrupted(p) \/ LogResumed(p) \/ Work(p) \/ LogStop(p)
    <2>1. \A why \in WorkerReasons \cup {"none"} : why \in Reasons
        BY DEF Reasons
    <2>2. CASE LogStart(p)
        BY <2>1, <2>2, WorkerWrites DEF LogStart, Kinds, WritingPcs
    <2>3. CASE LogInterrupted(p)
        BY <2>1, <2>3, WorkerWrites DEF LogInterrupted, Kinds, WritingPcs
    <2>4. CASE LogResumed(p)
        BY <2>1, <2>4, WorkerWrites DEF LogResumed, Kinds, WritingPcs
    <2>5. CASE Work(p)
        BY <2>1, <2>5, WorkerWrites DEF Work, Kinds, WritingPcs
    <2>6. CASE LogStop(p)
        BY <1>1, <2>1, <2>6, WorkerWrites DEF LogStop, Kinds, WritingPcs
    <2> QED  BY <1>6, <2>2, <2>3, <2>4, <2>5, <2>6
<1>7. CASE Verdict(p)
    <2>1. /\ pc[p] = "running" /\ Goto(p, "stop")
          /\ UNCHANGED <<run, history, corrupt, parent, report, next>>
          /\ \A q \in Workers \ {p} : result'[q] = result[q]
        BY <1>1, <1>7 DEF Verdict
    <2>2. ~corrupt => Open(history[run[p]]) /\ next[p] = Len(history[run[p]])
        BY <2>1 DEF HostInv, HistoryInv, WritersMay, ContinuingPcs, WritingPcs
    <2> QED  BY <2>1, <2>2, WorkerWaits DEF WorkerPcs, WriterPcs, RunLockPcs, WritingPcs,
             EarlyPcs, ContinuingPcs, LaterPcs
<1>8. CASE ReleaseRun(p) \/ ReleaseWriter(p)
    <2>1. /\ pc[p] \in LaterPcs
          /\ UNCHANGED <<run, history, corrupt, parent, report, next, result>>
          /\ \E at \in {"releaseWriter", "exited"} : Goto(p, at)
        BY <1>8 DEF ReleaseRun, ReleaseWriter, LaterPcs
    <2>2. ~corrupt /\ result[p] \in WorkerReasons => SaysStop(run[p], result[p])
        BY <2>1 DEF HostInv, HistoryInv, StopsLogged
    <2> QED  BY <2>1, <2>2, WorkerWaits DEF WorkerPcs, WriterPcs, RunLockPcs, WritingPcs,
             EndedPcs, EarlyPcs, ContinuingPcs, LaterPcs
<1>9. ~Truncate(p)
    BY <1>1 DEF Truncate
<1> QED  BY <1>3, <1>4, <1>5, <1>6, <1>7, <1>8, <1>9 DEF WorkerStep

(* A step that kills workers or none, leaves the file alone and moves one    *)
(* parent: what that parent needs to know to be where it goes.              *)
LEMMA ParentWaits ==
    ASSUME HostInv, NEW c \in Cli, NEW at \in ParentPcs,
           parent' = [parent EXCEPT ![c] = at],
           \A p \in Workers : pc'[p] # pc[p] => /\ pc'[p] = "dead"
                                                /\ pc[p] # "unborn" \/ p = c,
           \A d \in Cli \ {c} : report'[d] = report[d],
           at # "precheck",
           UNCHANGED <<run, history, corrupt, next, result>>,
           ~corrupt => /\ at = "sealStart" => ~Begun(history[run[c]])
                       /\ at = "sealStop" => Open(history[run[c]])
                       /\ Names(report'[c]) =>
                             SaysStop(run[c], report'[c].reason)
    PROVE  HistoryInv'
<1>1. parent'[c] = at /\ \A d \in Cli \ {c} : parent'[d] = parent[d]
    BY DEF HostInv, LockInv, LockTypes
<1>2. \A p \in Workers : pc'[p] # pc[p] => pc'[p] = "dead"
    OBVIOUS
<1>3. NotTruncating' /\ FirstNumbers'
    BY <1>2 DEF HostInv, HistoryInv, NotTruncating, FirstNumbers, EarlyPcs
<1>4. Unspawned'
    <2> SUFFICES ASSUME NEW d \in Cli, parent'[d] = "precheck" PROVE pc'[d] = "unborn"
        BY DEF Unspawned
    <2>1. pc[d] = "unborn" /\ d # c
        BY <1>1 DEF HostInv, HistoryInv, Unspawned
    <2> QED  BY <2>1 DEF Workers
<1>5. ASSUME ~corrupt'
      PROVE  /\ \A s \in Runs : ValidHistory(history'[s])
             /\ WritersMay' /\ SealersMay' /\ StopsLogged' /\ ReportsLogged'
    <2>1. ~corrupt /\ \A s \in Runs : ValidHistory(history'[s])
        BY <1>5 DEF HostInv, HistoryInv
    <2>2. WritersMay' /\ SealersMay'
        BY <1>1, <1>2, <2>1 DEF HostInv, HistoryInv, WritersMay, SealersMay, WritingPcs,
           ContinuingPcs
    <2>3. StopsLogged' /\ ReportsLogged'
        BY <1>1, <1>2, <2>1 DEF HostInv, HistoryInv, StopsLogged, ReportsLogged, SaysStop,
           LaterPcs
    <2> QED  BY <2>1, <2>2, <2>3
<1> QED  BY <1>3, <1>4, <1>5, Zenon DEF HistoryInv

(* A parent's append, under both locks.                                     *)
LEMMA ParentWrites ==
    ASSUME HostInv, NEW c \in Cli, SealStart(c) \/ SealStop(c)
    PROVE  HistoryInv'
<1> USE DEF parentVars, workerVars
<1> DEFINE r    == run[c]
           k    == IF parent[c] = "sealStart" THEN "run_started" ELSE "run_stopped"
           why  == IF parent[c] = "sealStart" THEN "none" ELSE loss[c]
           e    == Record(k, "cli_parent", Len(history[r]), why)
           at   == IF parent[c] = "sealStart" THEN "sealStop" ELSE "done"
<1>1. /\ history \in [Runs -> Seq(Event)] /\ r \in Runs /\ loss[c] \in Reasons
      /\ "none" \in Reasons /\ parent \in [Cli -> ParentPcs] /\ Cli \subseteq Workers
      /\ report \in [Cli -> [kind : ReportKinds, reason : Reasons, marked : BOOLEAN]]
      /\ Len(history[r]) \in Nat
    BY DEF HostInv, HostTypeInv, FileTypes, LockTypes, ParentTypes, Reasons, Workers
<1>2. parent[c] \in SealingPcs
    BY DEF SealStart, SealStop, SealingPcs
<1>3. /\ Write(r, e) /\ parent' = [parent EXCEPT ![c] = at]
      /\ UNCHANGED <<run, pc, next, result>>
      /\ k = "run_started" => report' = report
      /\ k = "run_stopped" =>
             report' = [report EXCEPT ![c] = Report("document", why, FALSE)]
    BY DEF SealStart, SealStop, ParentAppends, Answers, Ends
<1>4. e \in Event /\ e.seq = Len(history[r]) /\ e.kind = k /\ e.reason = why
    BY <1>1, RecordIsEvent DEF Record, Kinds
<1>5. k \in {"run_started", "run_stopped"} /\ (k = "run_started" <=> at = "sealStop")
      /\ at \in {"sealStop", "done"}
    OBVIOUS
<1>6. parent'[c] = at /\ \A d \in Cli \ {c} : parent'[d] = parent[d]
    BY <1>1, <1>3
<1>7. OneWriter
    BY LocksImplyOneWriter DEF HostInv
<1>8. NotTruncating' /\ FirstNumbers'
    BY <1>3 DEF HostInv, HistoryInv, NotTruncating, FirstNumbers
<1>9. Unspawned'
    BY <1>3, <1>5, <1>6 DEF HostInv, HistoryInv, Unspawned
<1>10. ~corrupt => /\ k = "run_started" <=> ~Begun(history[r])
                   /\ ~Stopped(history[r])
    <2> HAVE ~corrupt
    <2>1. /\ parent[c] = "sealStart" => ~Begun(history[r])
          /\ parent[c] = "sealStop" => Open(history[r])
        BY DEF HostInv, HistoryInv, SealersMay
    <2> QED  BY <1>2, <2>1, BegunAndStopped DEF SealingPcs
<1> HIDE DEF r, k, why, e, at
<1>11. ASSUME ~corrupt'
       PROVE  /\ \A s \in Runs : ValidHistory(history'[s])
              /\ WritersMay' /\ SealersMay' /\ StopsLogged' /\ ReportsLogged'
    <2>1. ~corrupt
        BY <1>3, <1>11, Zenon DEF Write
    <2>2. /\ \A s \in Runs : ValidHistory(history'[s])
          /\ \A s \in Runs \ {r} : history'[s] = history[s]
          /\ Begun(history'[r])
          /\ Stopped(history'[r]) <=> k = "run_stopped"
          /\ k = "run_stopped" => StopReason(history'[r]) = why
        BY <1>1, <1>3, <1>4, <1>10, <1>11, <2>1, WriteExtends DEF HostInv
    <2>3. WritersMay'
        BY <1>2, <1>3, <1>7 DEF WritersMay, OneWriter, WritingPcs, ContinuingPcs
    <2>4. SealersMay'
        <3>1. ASSUME NEW d \in Cli, d # c PROVE parent'[d] \notin SealingPcs
            BY <1>2, <1>6, <1>7, <3>1 DEF OneWriter
        <3>2. at # "sealStart" /\ (at = "sealStop" => Open(history'[r]))
            BY <1>5, <2>2 DEF Open
        <3> QED  BY <1>3, <1>6, <3>1, <3>2 DEF SealersMay, SealingPcs, r
    <2>5. \A s \in Runs : \A x : SaysStop(s, x) => SaysStop(s, x)'
        BY <1>10, <2>1, <2>2 DEF SaysStop
    <2>6. StopsLogged'
        <3> SUFFICES ASSUME NEW p \in Workers, pc'[p] \in LaterPcs, result'[p] \in WorkerReasons
                     PROVE  SaysStop(run[p], result[p])'
            BY DEF StopsLogged
        <3>1. SaysStop(run[p], result[p]) /\ run[p] \in Runs
            BY <1>3, <2>1 DEF HostInv, HistoryInv, StopsLogged, LockInv, LockTypes
        <3> QED  BY <1>3, <2>5, <3>1
    <2>7. ReportsLogged'
        <3> SUFFICES ASSUME NEW d \in Cli, Names(report'[d])
                     PROVE  SaysStop(run[d], report[d].reason)'
            BY DEF ReportsLogged
        <3>1. CASE report'[d] = report[d]
            <4>1. SaysStop(run[d], report[d].reason) /\ run[d] \in Runs
                BY <1>1, <2>1, <3>1 DEF HostInv, HistoryInv, ReportsLogged, LockInv, LockTypes
            <4> QED  BY <1>3, <2>5, <3>1, <4>1
        <3>2. CASE report'[d] # report[d]
            <4>1. k = "run_stopped" /\ d = c
                BY <1>1, <1>3, <1>5, <3>2
            <4>2. report'[c].reason = why
                BY <1>1, <1>3, <4>1 DEF Report
            <4> QED  BY <1>3, <2>2, <4>1, <4>2 DEF SaysStop, r
        <3> QED  BY <3>1, <3>2
    <2> QED  BY <2>2, <2>3, <2>4, <2>6, <2>7
<1> QED  BY <1>8, <1>9, <1>11, Zenon DEF HistoryInv

(* The spawn: the worker starts with nothing written.                       *)
LEMMA SpawnHistory ==
    ASSUME HostInv, NEW c \in Cli, parent[c] = "precheck",
           parent' = [parent EXCEPT ![c] = "waiting"], Goto(c, "sink"),
           UNCHANGED <<run, history, corrupt, next, result, report>>
    PROVE  HistoryInv'
<1>1. /\ pc[c] = "unborn" /\ c \in Workers /\ c \notin Resume
      /\ pc \in [Workers -> WorkerPcs] /\ parent \in [Cli -> ParentPcs]
    BY ConstantsAssumption DEF HostInv, HistoryInv, Unspawned, LockInv, LockTypes, Workers
<1>2. /\ pc'[c] = "sink" /\ \A q \in Workers \ {c} : pc'[q] = pc[q]
      /\ parent'[c] = "waiting" /\ \A d \in Cli \ {c} : parent'[d] = parent[d]
    BY <1>1 DEF Goto
<1>3. next[c] = 0
    BY <1>1 DEF HostInv, HistoryInv, FirstNumbers, EarlyPcs
<1>4. NotTruncating' /\ FirstNumbers'
    BY <1>2, <1>3 DEF HostInv, HistoryInv, NotTruncating, FirstNumbers
<1>5. Unspawned'
    BY <1>2 DEF HostInv, HistoryInv, Unspawned, Workers
<1>6. ASSUME ~corrupt'
      PROVE  /\ \A s \in Runs : ValidHistory(history'[s])
             /\ WritersMay' /\ SealersMay' /\ StopsLogged' /\ ReportsLogged'
    <2>1. ~corrupt /\ \A s \in Runs : ValidHistory(history'[s])
        BY <1>6 DEF HostInv, HistoryInv
    <2>2. WritersMay' /\ SealersMay'
        BY <1>2, <2>1 DEF HostInv, HistoryInv, WritersMay, SealersMay, WritingPcs,
           ContinuingPcs
    <2>3. StopsLogged' /\ ReportsLogged'
        BY <1>2, <2>1 DEF HostInv, HistoryInv, StopsLogged, ReportsLogged, SaysStop,
           LaterPcs
    <2> QED  BY <2>1, <2>2, <2>3
<1> QED  BY <1>4, <1>5, <1>6, Zenon DEF HistoryInv

LEMMA ParentStepHistory ==
    ASSUME HostInv, NEW c \in Cli, ParentStep(c)
    PROVE  HistoryInv'
<1> USE DEF parentVars, workerVars, fileVars
<1>1. /\ pc \in [Workers -> WorkerPcs] /\ c \in Workers
      /\ report \in [Cli -> [kind : ReportKinds, reason : Reasons, marked : BOOLEAN]]
    BY DEF HostInv, HostTypeInv, LockTypes, ParentTypes, Reasons, Workers
(* A parent that moves on without answering, or answers with no reason that *)
(* a log must hold.                                                         *)
<1>2. ASSUME NEW at \in {"sealWriter", "sealRun", "sealRead"},
             parent' = [parent EXCEPT ![c] = at],
             UNCHANGED <<run, history, corrupt, next, result, report>>,
             pc' = pc \/ pc' = [pc EXCEPT ![c] = "dead"]
      PROVE  HistoryInv'
    <2>1. \A p \in Workers : pc'[p] # pc[p] => pc'[p] = "dead" /\ p = c
        BY <1>1, <1>2
    <2>2. ~corrupt /\ Names(report[c]) =>
              SaysStop(run[c], report[c].reason)
        BY DEF HostInv, HistoryInv, ReportsLogged
    <2> QED  BY <1>2, <2>1, <2>2, ParentWaits DEF ParentPcs
<1>3. ASSUME NEW k \in ReportKinds, NEW why, NEW m \in BOOLEAN, Ends(c, Report(k, why, m)),
             UNCHANGED <<run, history, corrupt, next, result, pc>>,
             ~corrupt /\ k \in {"document", "lost"} /\ ~m => SaysStop(run[c], why)
      PROVE  HistoryInv'
    <2>1. /\ parent' = [parent EXCEPT ![c] = "done"]
          /\ report'[c] = Report(k, why, m)
          /\ \A d \in Cli \ {c} : report'[d] = report[d]
        BY <1>1, <1>3 DEF Ends
    <2>2. /\ UNCHANGED <<run, history, corrupt, next, result>>
          /\ \A p \in Workers : pc'[p] = pc[p]
        BY <1>3
    <2>3. ~corrupt /\ Names(report'[c]) => SaysStop(run[c], report'[c].reason)
        BY <1>3, <2>1 DEF Report, Names
    <2> QED  BY <2>1, <2>2, <2>3, ParentWaits DEF ParentPcs
<1>4. CASE Precheck(c)
    <2>1. CASE \E k \in {"error", "refused"} : Answers(c, k, "none") /\ UNCHANGED pc
        BY <1>3, <1>4, <2>1 DEF Precheck, Answers, ReportKinds
    <2>2. CASE parent' = [parent EXCEPT ![c] = "waiting"] /\ Goto(c, "sink") /\ report' = report
        BY <1>4, <2>2, SpawnHistory DEF Precheck
    <2> QED  BY <1>4, <2>1, <2>2 DEF Precheck
<1>5. CASE Deliver(c)
    <2>1. ~corrupt => SaysStop(run[c], result[c])
        BY <1>1, <1>5 DEF Deliver, HostInv, HistoryInv, StopsLogged, LaterPcs
    <2> QED  BY <1>3, <1>5, <2>1 DEF Deliver, Answers, ReportKinds
<1>6. CASE LoseWorker(c) \/ KillWorker(c)
    BY <1>2, <1>6 DEF LoseWorker, KillWorker, Dies
<1>7. CASE SealWriter(c) \/ SealRun(c)
    <2>1. UNCHANGED <<run, history, corrupt, next, result, pc>>
        BY <1>7 DEF SealWriter, SealRun
    <2>2. \/ AnswersUnsealed(c)
          \/ /\ report' = report
             /\ \E at \in {"sealRun", "sealRead"} : parent' = [parent EXCEPT ![c] = at]
        BY <1>7 DEF SealWriter, SealRun
    <2> QED  BY <1>2, <1>3, <2>1, <2>2 DEF AnswersUnsealed, ReportKinds
<1>8. CASE SealRead(c)
    <2> DEFINE h == history[run[c]]
    <2>1. UNCHANGED <<run, history, corrupt, next, result, pc>>
        BY <1>8 DEF SealRead
    <2>2. CASE AnswersUnsealed(c)
        BY <1>3, <2>1, <2>2 DEF AnswersUnsealed, ReportKinds
    <2>3. CASE Stopped(h) /\ Answers(c, "lost", StopReason(h))
        BY <1>3, <2>1, <2>3 DEF Answers, ReportKinds, SaysStop
    <2>4. CASE /\ ~Stopped(h) /\ report' = report
               /\ parent' = [parent EXCEPT ![c] = IF Begun(h) THEN "sealStop"
                                                  ELSE "sealStart"]
        <3>1. ~corrupt /\ Names(report[c]) =>
                  SaysStop(run[c], report[c].reason)
            BY DEF HostInv, HistoryInv, ReportsLogged
        <3>2. CASE Begun(h)
            BY <2>1, <2>4, <3>1, <3>2, ParentWaits DEF ParentPcs, Open
        <3>3. CASE ~Begun(h)
            BY <2>1, <2>4, <3>1, <3>3, ParentWaits DEF ParentPcs
        <3> QED  BY <3>2, <3>3
    <2> QED  BY <1>8, <2>2, <2>3, <2>4 DEF SealRead
<1> QED  BY <1>4, <1>5, <1>6, <1>7, <1>8, ParentWrites DEF ParentStep

(* A death leaves every history as it was.                                  *)
LEMMA CrashHistory ==
    ASSUME HostInv, NEW p \in Workers, Crash(p)
    PROVE  HistoryInv'
<1>1. /\ Goto(p, "dead") /\ pc[p] # "unborn"
      /\ UNCHANGED <<run, history, corrupt, next, result, parent, report>>
    BY DEF Crash, Dies, Goto, parentVars
<1> QED  BY <1>1, WorkerWaits DEF WorkerPcs, EndedPcs, EarlyPcs, ContinuingPcs, WritingPcs,
         LaterPcs

LEMMA ParentCrashHistory ==
    ASSUME HostInv, NEW c \in Cli, ParentCrash(c)
    PROVE  HistoryInv'
<1>1. /\ parent' = [parent EXCEPT ![c] = "dead"]
      /\ UNCHANGED <<run, history, corrupt, pc, next, result, report>>
    BY DEF ParentCrash, workerVars
<1>2. ~corrupt /\ Names(report[c]) =>
          SaysStop(run[c], report[c].reason)
    BY DEF HostInv, HistoryInv, ReportsLogged
<1> QED  BY <1>1, <1>2, ParentWaits DEF ParentPcs

(* A step that none of this is about.                                       *)
LEMMA HistoryKept ==
    ASSUME HistoryInv,
           UNCHANGED <<run, history, corrupt, pc, next, result, parent, report>>
    PROVE  HistoryInv'
<1>1. /\ NotTruncating' = NotTruncating /\ Unspawned' = Unspawned
      /\ FirstNumbers' = FirstNumbers
    BY DEF NotTruncating, Unspawned, FirstNumbers
<1>2. /\ WritersMay' = WritersMay /\ SealersMay' = SealersMay
      /\ StopsLogged' = StopsLogged /\ ReportsLogged' = ReportsLogged
    BY DEF WritersMay, SealersMay, StopsLogged, ReportsLogged, SaysStop
<1> QED  BY <1>1, <1>2 DEF HistoryInv

LEMMA HistoryNext ==
    ASSUME Truncating = {}, HostInv, [Next]_vars
    PROVE  HistoryInv'
<1>1. ASSUME UNCHANGED <<run, history, corrupt, pc, next, result, parent, report>>
      PROVE  HistoryInv'
    BY <1>1, HistoryKept DEF HostInv
<1>2. CASE \E p \in Workers : WorkerStep(p) \/ Crash(p)
    BY <1>2, WorkerStepHistory, CrashHistory
<1>3. CASE \E c \in Cli : ParentStep(c) \/ ParentCrash(c)
    BY <1>3, ParentStepHistory, ParentCrashHistory
<1>4. CASE (\E r \in Runs : RequestCancel(r)) \/ UNCHANGED vars
    BY <1>1, <1>4 DEF RequestCancel, vars, fileVars, workerVars, parentVars
<1> QED  BY <1>2, <1>3, <1>4 DEF Next

LEMMA MarksInit == Init => MarksInv
BY DEF Init, MarksInv, NoReport, Report

LEMMA MarksNext ==
    ASSUME HostTypeInv, MarksInv, [Next]_vars PROVE MarksInv'
<1> USE DEF parentVars, workerVars
<1>1. /\ parent \in [Cli -> ParentPcs]
      /\ loss \in [Cli -> LossReasons \cup {"none"}]
      /\ report \in [Cli -> [kind : ReportKinds, reason : Reasons, marked : BOOLEAN]]
    BY DEF HostTypeInv, LockTypes, ParentTypes
<1>2. ASSUME UNCHANGED <<parent, loss, report>> PROVE MarksInv'
    BY <1>2 DEF MarksInv
<1>3. ASSUME NEW c \in Cli, parent[c] \notin {"done", "dead"},
             NEW at, parent' = [parent EXCEPT ![c] = at],
             at \in {"sealWriter", "sealRun", "sealRead"} => loss'[c] \in LossReasons,
             \A d \in Cli \ {c} : loss'[d] = loss[d], report' = report
      PROVE  MarksInv'
    BY <1>1, <1>3 DEF MarksInv
<1>4. ASSUME NEW c \in Cli, parent[c] \notin {"done", "dead"}, NEW k, NEW why,
             Ends(c, Report(k, why, FALSE))
      PROVE  MarksInv'
    BY <1>1, <1>4 DEF MarksInv, Ends, Report
<1>5. ASSUME NEW c \in Cli, parent[c] \in {"sealWriter", "sealRun", "sealRead"},
             AnswersUnsealed(c)
      PROVE  MarksInv'
    BY <1>1, <1>5 DEF MarksInv, AnswersUnsealed, Ends, Report
<1>6. ASSUME NEW c \in Cli, ParentStep(c) PROVE MarksInv'
    <2>1. CASE Precheck(c) \/ Deliver(c) \/ SealStart(c) \/ SealStop(c)
        BY <1>3, <1>4, <2>1 DEF Precheck, Deliver, SealStart, SealStop, Answers
    <2>2. CASE LoseWorker(c) \/ KillWorker(c)
        <3>1. /\ parent[c] = "waiting" /\ parent' = [parent EXCEPT ![c] = "sealWriter"]
              /\ \E why \in LossReasons : loss' = [loss EXCEPT ![c] = why]
              /\ report' = report
            BY <2>2 DEF LoseWorker, KillWorker, LossReasons
        <3> QED  BY <1>1, <1>3, <3>1
    <2>3. CASE SealWriter(c) \/ SealRun(c)
        <3>1. /\ parent[c] \in {"sealWriter", "sealRun"}
              /\ loss[c] \in LossReasons
            BY <2>3 DEF SealWriter, SealRun, MarksInv
        <3> QED  BY <1>3, <1>5, <2>3, <3>1 DEF SealWriter, SealRun
    <2>4. CASE SealRead(c)
        BY <1>3, <1>4, <1>5, <2>4 DEF SealRead, Answers
    <2> QED  BY <1>6, <2>1, <2>2, <2>3, <2>4 DEF ParentStep
<1>7. ASSUME NEW c \in Cli, ParentCrash(c) PROVE MarksInv'
    BY <1>3, <1>7 DEF ParentCrash
<1>8. ASSUME NEW p \in Workers, WorkerStep(p) \/ Crash(p) PROVE MarksInv'
    BY <1>2, <1>8 DEF WorkerStep, Crash, BuildSink, Truncate, TakeWriter, TakeRunLock,
       CheckFresh, CheckResume, LogStart, LogInterrupted, LogResumed, Work, Verdict,
       LogStop, Appends, ReleaseRun, ReleaseWriter
<1>9. CASE (\E r \in Runs : RequestCancel(r)) \/ UNCHANGED vars
    BY <1>2, <1>9 DEF RequestCancel, vars
<1> QED  BY <1>6, <1>7, <1>8, <1>9 DEF Next

LEMMA HostInvInit == Init => HostInv
BY LocksInit, HostTypesInit, MarksInit, HistoryInit DEF HostInv

LEMMA HostInvNext ==
    ASSUME Truncating = {} PROVE HostInv /\ [Next]_vars => HostInv'
BY LocksNext, HostTypesNext, MarksNext, HistoryNext DEF HostInv

(* What the log and the parents' answers may be, where no process is built  *)
(* with truncate_torn_tail: every history inspect accepts, no run written   *)
(* to after its stop, and every answer the one the log holds, or marked.    *)
LEMMA HistoryInvSuffices ==
    HostInv => HistoryValid /\ NoLifeAfterStop /\ ReportAgreesWithLog
<1> SUFFICES ASSUME HostInv PROVE HistoryValid /\ NoLifeAfterStop /\ ReportAgreesWithLog
    OBVIOUS
<1>1. HistoryValid
    BY DEF HostInv, HistoryInv, HistoryValid
<1>2. NoLifeAfterStop
    <2> SUFFICES ASSUME ~corrupt, NEW p \in Workers, pc[p] \in WritingPcs
                 PROVE  ~Stopped(history[run[p]])
        BY DEF NoLifeAfterStop
    <2>1. /\ pc[p] = "start" => ~Begun(history[run[p]])
          /\ pc[p] # "start" => Open(history[run[p]])
        BY DEF HostInv, HistoryInv, WritersMay, WritingPcs, ContinuingPcs
    <2> QED  BY <2>1, BegunAndStopped
<1>3. ReportAgreesWithLog
    BY DEF HostInv, HistoryInv, ReportsLogged, Names, SaysStop, MarksInv, ReportAgreesWithLog
<1> QED  BY <1>1, <1>2, <1>3

(* Every history of a file that still parses is one inspect accepts.        *)
THEOREM HistoriesStayValid == ASSUME Truncating = {} PROVE Spec => []HistoryValid
BY HostInvInit, HostInvNext, HistoryInvSuffices, PTL DEF Spec

(* No worker that may still append is on a run that has stopped.            *)
THEOREM NothingAfterTheStop == ASSUME Truncating = {} PROVE Spec => []NoLifeAfterStop
BY HostInvInit, HostInvNext, HistoryInvSuffices, PTL DEF Spec

(* A parent that names a reason names the one the log holds, unless its     *)
(* document is marked: then it is the one it gave its worker up for.        *)
THEOREM AnswersAgree == ASSUME Truncating = {} PROVE Spec => []ReportAgreesWithLog
BY HostInvInit, HostInvNext, HistoryInvSuffices, PTL DEF Spec

-----------------------------------------------------------------------------
(* The refinement: to its readers, the file is RunHistory's log.            *)

Hist == IF corrupt THEN [r \in Runs |-> <<>>] ELSE history

(* The record e is one that run r may be given next.                        *)
Fits(r, e) == /\ e.seq = Len(history[r])
              /\ ~Stopped(history[r])
              /\ ~Begun(history[r]) <=> e.kind = "run_started"

Appending == \E r \in Runs, e \in Event : Write(r, e) /\ (~corrupt => Fits(r, e))

LEMMA WorkerAppends ==
    ASSUME HostInv, NEW p \in Workers, NEW k \in Kinds, NEW why \in Reasons, NEW at,
           Appends(p, k, why, at), pc[p] \in WritingPcs,
           k = "run_started" <=> pc[p] = "start"
    PROVE  Appending
<1> DEFINE r == run[p]
           e == Record(k, "worker", next[p], why)
<1>1. /\ r \in Runs /\ e \in Event /\ Write(r, e)
      /\ e.seq = next[p] /\ e.kind = k
    BY RecordIsEvent DEF HostInv, HostTypeInv, LockTypes, WorkerTypes, Appends, Record
<1>2. ASSUME ~corrupt PROVE Fits(r, e)
    <2>1. /\ next[p] = Len(history[r])
          /\ pc[p] = "start" => ~Begun(history[r])
          /\ pc[p] # "start" => Open(history[r])
        BY <1>2 DEF HostInv, HistoryInv, WritersMay, WritingPcs, ContinuingPcs
    <2> QED  BY <1>1, <2>1, BegunAndStopped DEF Fits
<1> QED  BY <1>1, <1>2, Zenon DEF Appending

LEMMA ParentAppending ==
    ASSUME HostInv, NEW c \in Cli, SealStart(c) \/ SealStop(c)
    PROVE  Appending
<1> DEFINE r   == run[c]
           k   == IF parent[c] = "sealStart" THEN "run_started" ELSE "run_stopped"
           why == IF parent[c] = "sealStart" THEN "none" ELSE loss[c]
           e   == Record(k, "cli_parent", Len(history[r]), why)
<1>1. /\ r \in Runs /\ why \in Reasons /\ k \in Kinds /\ Len(history[r]) \in Nat
    BY DEF HostInv, HostTypeInv, FileTypes, LockTypes, ParentTypes, Reasons, Workers, Kinds
<1>2. Write(r, e) /\ parent[c] \in SealingPcs
    BY DEF SealStart, SealStop, ParentAppends, SealingPcs
<1>3. e \in Event /\ e.seq = Len(history[r]) /\ e.kind = k
    BY <1>1, RecordIsEvent DEF Record
<1>4. ASSUME ~corrupt PROVE Fits(r, e)
    <2>1. /\ parent[c] = "sealStart" => ~Begun(history[r])
          /\ parent[c] = "sealStop" => Open(history[r])
        BY <1>4 DEF HostInv, HistoryInv, SealersMay
    <2> QED  BY <1>2, <1>3, <2>1, BegunAndStopped DEF Fits, SealingPcs
<1> QED  BY <1>1, <1>2, <1>3, <1>4, Zenon DEF Appending

(* Every step leaves the histories alone or adds the record that fits.      *)
LEMMA FileSteps ==
    ASSUME Truncating = {}, HostInv, [Next]_vars
    PROVE  UNCHANGED <<history, corrupt>> \/ Appending
<1> USE DEF fileVars
<1>1. ASSUME NEW p \in Workers, WorkerStep(p)
      PROVE  UNCHANGED <<history, corrupt>> \/ Appending
    <2>1. \A why \in WorkerReasons \cup {"none"} : why \in Reasons
        BY DEF Reasons
    <2>2. pc[p] # "truncate" /\ (pc[p] = "stop" => result[p] \in WorkerReasons)
        BY DEF HostInv, HostTypeInv, WorkerTypes, HistoryInv, NotTruncating
    <2>3. CASE LogStart(p)
        BY <2>1, <2>3, WorkerAppends DEF LogStart, Kinds, WritingPcs
    <2>4. CASE LogInterrupted(p)
        BY <2>1, <2>4, WorkerAppends DEF LogInterrupted, Kinds, WritingPcs
    <2>5. CASE LogResumed(p)
        BY <2>1, <2>5, WorkerAppends DEF LogResumed, Kinds, WritingPcs
    <2>6. CASE Work(p)
        BY <2>1, <2>6, WorkerAppends DEF Work, Kinds, WritingPcs
    <2>7. CASE LogStop(p)
        BY <2>1, <2>2, <2>7, WorkerAppends DEF LogStop, Kinds, WritingPcs
    <2>8. CASE \/ BuildSink(p) \/ TakeWriter(p) \/ TakeRunLock(p) \/ CheckFresh(p)
               \/ CheckResume(p) \/ Verdict(p) \/ ReleaseRun(p) \/ ReleaseWriter(p)
        BY <2>8 DEF BuildSink, TakeWriter, TakeRunLock, CheckFresh, CheckResume, Verdict,
           ReleaseRun, ReleaseWriter
    <2> QED  BY <1>1, <2>2, <2>3, <2>4, <2>5, <2>6, <2>7, <2>8 DEF WorkerStep, Truncate
<1>2. ASSUME NEW c \in Cli, ParentStep(c)
      PROVE  UNCHANGED <<history, corrupt>> \/ Appending
    <2>1. CASE SealStart(c) \/ SealStop(c)
        BY <2>1, ParentAppending
    <2>2. CASE \/ Precheck(c) \/ Deliver(c) \/ LoseWorker(c) \/ KillWorker(c)
               \/ SealWriter(c) \/ SealRun(c) \/ SealRead(c)
        BY <2>2 DEF Precheck, Deliver, LoseWorker, KillWorker, Dies, SealWriter, SealRun,
           SealRead
    <2> QED  BY <1>2, <2>1, <2>2 DEF ParentStep
<1>3. ASSUME NEW p \in Workers, Crash(p) PROVE UNCHANGED <<history, corrupt>>
    BY <1>3 DEF Crash, Dies
<1>4. ASSUME NEW c \in Cli, ParentCrash(c) PROVE UNCHANGED <<history, corrupt>>
    BY <1>4 DEF ParentCrash
<1>5. ASSUME NEW r \in Runs, RequestCancel(r) PROVE UNCHANGED <<history, corrupt>>
    BY <1>5 DEF RequestCancel
<1>6. CASE UNCHANGED vars
    BY <1>6 DEF vars
<1> QED  BY <1>1, <1>2, <1>3, <1>4, <1>5, <1>6 DEF Next

(* The record that fits is a step of RunHistory, or stops the file parsing. *)
LEMMA AppendingRefines ==
    ASSUME HostTypeInv, HostTypeInv', Appending
    PROVE  [Readable!Next]_(Readable!vars)
<1> PICK r \in Runs, e \in Event : Write(r, e) /\ (~corrupt => Fits(r, e))
    BY DEF Appending
<1>1. CASE corrupt
    <2>1. corrupt'
        BY <1>1, Zenon DEF Write
    <2> QED  BY <1>1, <2>1 DEF Readable!vars
<1>2. CASE ~corrupt /\ torn
    <2>1. corrupt'
        BY <1>2, Zenon DEF Write
    <2> QED  BY <1>2, <2>1 DEF Readable!Next, Readable!Garble
<1>3. CASE ~corrupt /\ ~torn
    <2>1. /\ ~corrupt' /\ Fits(r, e)
          /\ history' = [history EXCEPT ![r] = Append(@, e)]
        BY <1>3, Zenon DEF Write
    <2>2. history \in [Runs -> Seq(Event)] /\ history[r] \in Seq(Event)
        BY DEF HostTypeInv, FileTypes
    <2>3. /\ history'[r] = Append(history[r], e)
          /\ Len(history'[r]) = Len(history[r]) + 1
          /\ history'[r][Len(history[r]) + 1] = e
        BY <2>1, <2>2
    <2>4. Readable!Add(r)
        BY <1>3, <2>1, <2>2, <2>3 DEF Readable!Add, Readable!New, Fits
    <2>5. Readable!New(r) = e
        BY <1>3, <2>1, <2>3 DEF Readable!New
    <2>6. /\ Readable!Begun(Hist[r]) <=> Begun(history[r])
          /\ ~Readable!Stopped(Hist[r])
        BY <1>3, <2>1 DEF Readable!Begun, Readable!Stopped, Begun, Stopped, Stops, Hist, Fits
    <2>7. CASE e.kind = "run_started"
        BY <2>1, <2>4, <2>5, <2>6, <2>7 DEF Readable!Begin, Readable!Next, Fits, Hist
    <2>8. CASE e.kind = "run_stopped"
        BY <2>1, <2>4, <2>5, <2>6, <2>8
           DEF Readable!End, Readable!Open, Readable!Next, Fits, Hist
    <2>9. CASE e.kind \notin {"run_started", "run_stopped"}
        BY <2>1, <2>4, <2>5, <2>6, <2>9
           DEF Readable!Extend, Readable!Open, Readable!Next, Fits, Hist
    <2> QED  BY <2>7, <2>8, <2>9
<1> QED  BY <1>1, <1>2, <1>3

(* The processes implement the append-only log their readers rely on: a run *)
(* begins once, is extended while open, ends once, and is final, however    *)
(* many processes share the file and whichever of them die.                 *)
THEOREM ImplementsRunHistory == ASSUME Truncating = {} PROVE Spec => AppendOnly
<1>1. Init => Readable!Init
    BY DEF Init, Readable!Init
<1>2. HostInv /\ HostInv' /\ [Next]_vars => [Readable!Next]_(Readable!vars)
    <2> SUFFICES ASSUME HostInv, HostInv', [Next]_vars PROVE [Readable!Next]_(Readable!vars)
        OBVIOUS
    <2>1. CASE UNCHANGED <<history, corrupt>>
        BY <2>1 DEF Readable!vars
    <2>2. CASE Appending
        BY <2>2, AppendingRefines DEF HostInv
    <2> QED  BY <2>1, <2>2, FileSteps
<1> QED  BY <1>1, <1>2, HostInvInit, HostInvNext, PTL DEF Spec, AppendOnly, Readable!Spec

-----------------------------------------------------------------------------
(* A CLI run's own log: what its worker, or the parent that seals for it,    *)
(* saw under the writer lock is still so when it appends run_started.       *)

CliAlone ==
    \A c \in Cli : pc[c] = "start" \/ parent[c] = "sealStart" => ~HoldsARun

(* A step that leaves the histories alone brings a CLI run to its start only *)
(* where it saw that they are all empty.                                    *)
LEMMA QuietStepAlone ==
    ASSUME CliAlone, history' = history,
           \A c \in Cli : /\ pc'[c] = "start" => pc[c] = "start" \/ ~HoldsARun
                          /\ parent'[c] = "sealStart" => parent[c] = "sealStart" \/ ~HoldsARun
    PROVE  CliAlone'
BY DEF CliAlone, HoldsARun

LEMMA AloneNext ==
    ASSUME Truncating = {}, HostInv, CliAlone, [Next]_vars
    PROVE  CliAlone'
<1> USE DEF fileVars, workerVars, parentVars
<1>1. /\ pc \in [Workers -> WorkerPcs] /\ parent \in [Cli -> ParentPcs]
      /\ Cli \subseteq Workers /\ Cli \cap Resume = {} /\ OneWriter
      /\ \A p \in Workers : pc[p] # "truncate"
    BY ConstantsAssumption, LocksImplyOneWriter
       DEF HostInv, LockInv, LockTypes, Workers, HistoryInv, NotTruncating
<1>2. ASSUME NEW p \in Workers, WorkerStep(p) PROVE CliAlone'
    <2>1. CASE LogStart(p) \/ LogInterrupted(p) \/ LogResumed(p) \/ Work(p) \/ LogStop(p)
        <3>1. /\ pc[p] \in WritingPcs /\ parent' = parent
              /\ \E at \in {"resume", "running", "releaseRun"} : pc' = [pc EXCEPT ![p] = at]
            BY <2>1 DEF LogStart, LogInterrupted, LogResumed, Work, LogStop, Appends, Goto,
               WritingPcs
        <3>2. \A c \in Cli : pc'[c] # "start" /\ parent'[c] # "sealStart"
            BY <1>1, <3>1 DEF OneWriter, WritingPcs, SealingPcs
        <3> QED  BY <3>2 DEF CliAlone
    <2>2. CASE CheckFresh(p) /\ p \in Cli
        <3>1. history' = history /\ parent' = parent
            BY <2>2 DEF CheckFresh
        <3>2. \/ ~HoldsARun /\ pc' = [pc EXCEPT ![p] = "start"]
              \/ pc' = [pc EXCEPT ![p] = "releaseRun"]
            BY <2>2 DEF CheckFresh, Goto, Raises
        <3> QED  BY <1>1, <3>1, <3>2, QuietStepAlone
    <2>3. CASE \/ BuildSink(p) \/ TakeWriter(p) \/ TakeRunLock(p)
               \/ (CheckFresh(p) /\ p \notin Cli) \/ CheckResume(p) \/ Verdict(p)
               \/ ReleaseRun(p) \/ ReleaseWriter(p)
        <3>1. history' = history /\ parent' = parent
            BY <2>3 DEF BuildSink, TakeWriter, TakeRunLock, CheckFresh, CheckResume, Verdict,
               ReleaseRun, ReleaseWriter
        <3>2. \E at \in WorkerPcs :
                  /\ pc' = [pc EXCEPT ![p] = at]
                  /\ at = "start" => p \notin Cli
            BY <2>3 DEF BuildSink, TakeWriter, TakeRunLock, CheckFresh, CheckResume, Verdict,
               ReleaseRun, ReleaseWriter, Goto, Raises, WorkerPcs, WriterPcs, RunLockPcs,
               WritingPcs, EndedPcs
        <3> QED  BY <1>1, <3>1, <3>2, QuietStepAlone
    <2> QED  BY <1>1, <1>2, <2>1, <2>2, <2>3 DEF WorkerStep, Truncate
<1>3. ASSUME NEW c \in Cli, ParentStep(c) PROVE CliAlone'
    <2>1. CASE SealStart(c) \/ SealStop(c)
        <3>1. /\ parent[c] \in SealingPcs /\ pc' = pc
              /\ \E at \in {"sealStop", "done"} : parent' = [parent EXCEPT ![c] = at]
            BY <2>1 DEF SealStart, SealStop, SealingPcs, Answers, Ends
        <3>2. \A d \in Cli : pc'[d] # "start" /\ parent'[d] # "sealStart"
            BY <1>1, <3>1 DEF OneWriter, WritingPcs, SealingPcs
        <3> QED  BY <3>2 DEF CliAlone
    <2>2. CASE SealRead(c)
        <3>1. history' = history /\ pc' = pc
            BY <2>2 DEF SealRead
        <3>2. \/ parent' = [parent EXCEPT ![c] = "done"]
              \/ parent' = [parent EXCEPT ![c] = "sealStop"]
              \/ ~HoldsARun /\ parent' = [parent EXCEPT ![c] = "sealStart"]
            BY <2>2 DEF SealRead, Answers, AnswersUnsealed, Ends, HoldsARun
        <3> QED  BY <1>1, <3>1, <3>2, QuietStepAlone
    <2>3. CASE \/ Precheck(c) \/ Deliver(c) \/ LoseWorker(c) \/ KillWorker(c)
               \/ SealWriter(c) \/ SealRun(c)
        <3>1. history' = history
            BY <2>3 DEF Precheck, Deliver, LoseWorker, KillWorker, Dies, SealWriter, SealRun
        <3>2. \/ pc' = pc
              \/ pc' = [pc EXCEPT ![c] = "sink"]
              \/ pc' = [pc EXCEPT ![c] = "dead"]
            BY <2>3 DEF Precheck, Deliver, LoseWorker, KillWorker, Dies, SealWriter, SealRun,
               Goto
        <3>3. \E at \in {"waiting", "done", "sealWriter", "sealRun", "sealRead"} :
                  parent' = [parent EXCEPT ![c] = at]
            BY <2>3 DEF Precheck, Deliver, LoseWorker, KillWorker, Dies, SealWriter, SealRun,
               Answers, AnswersUnsealed, Ends
        <3> QED  BY <1>1, <3>1, <3>2, <3>3, QuietStepAlone
    <2> QED  BY <1>3, <2>1, <2>2, <2>3 DEF ParentStep
<1>4. ASSUME NEW p \in Workers, Crash(p) PROVE CliAlone'
    <2>1. history' = history /\ parent' = parent /\ pc' = [pc EXCEPT ![p] = "dead"]
        BY <1>4 DEF Crash, Dies
    <2> QED  BY <1>1, <2>1, QuietStepAlone
<1>5. ASSUME NEW c \in Cli, ParentCrash(c) PROVE CliAlone'
    <2>1. history' = history /\ pc' = pc /\ parent' = [parent EXCEPT ![c] = "dead"]
        BY <1>5 DEF ParentCrash
    <2> QED  BY <1>1, <2>1, QuietStepAlone
<1>6. CASE (\E r \in Runs : RequestCancel(r)) \/ UNCHANGED vars
    <2>1. history' = history /\ parent' = parent /\ pc' = pc
        BY <1>6 DEF RequestCancel, vars
    <2> QED  BY <2>1, QuietStepAlone
<1> QED  BY <1>2, <1>3, <1>4, <1>5, <1>6 DEF Next

(* A CLI run is recorded only in a file that holds no other run.            *)
THEOREM CliRunsAlone == ASSUME Truncating = {} PROVE Spec => CliStartsEmptyLog
<1>1. Init => CliAlone
    BY DEF Init, CliAlone, Workers
<1>2. HostInv /\ CliAlone /\ [Next]_vars => CliAlone'
    BY AloneNext
<1>3. CliAlone /\ [Next]_vars =>
          [\A c \in Cli : LogStart(c) \/ SealStart(c) =>
              \A r \in Runs : ~Begun(history[r])]_vars
    BY DEF CliAlone, LogStart, SealStart, HoldsARun
<1> QED  BY <1>1, <1>2, <1>3, HostInvInit, HostInvNext, PTL DEF Spec, CliStartsEmptyLog

-----------------------------------------------------------------------------
(* The viewers: they disturb nothing.                                       *)

ViewPcs == {"idle", "probe", "holding", "read", "inspect", "touch", "yield", "done"}

Sayings == {"none", "error", "running", "finished", "interrupted", "not_found",
            "cancel_requested", "stopped", "timed_out"}

ViewTypes ==
    /\ view \in [Viewers -> ViewPcs] /\ about \in [Viewers -> Runs]
    /\ alive \in [Viewers -> BOOLEAN]
    /\ records \in [Viewers -> Seq(Event)] /\ yielded \in [Viewers -> Seq(Event)]
    /\ answer \in [Viewers -> Sayings] /\ seen \in [Viewers -> SUBSET States]

ViewersHold == \A v \in Viewers : view[v] = "holding" => runLock[about[v]] = Viewer(v)

LEMMA ViewersAreHolders ==
    /\ \A v \in Viewers : Viewer(v) \in Holders
    /\ \A v, w : Viewer(v) = Viewer(w) => v = w
    /\ \A v, p : Viewer(v) # Worker(p) /\ Viewer(v) # Parent(p) /\ Viewer(v) # Nobody
BY DEF Holders, Probing, Viewer, Worker, Parent, Nobody

(* What a viewer may change of what the processes share: who holds a lock    *)
(* that no process holds, before and after, and the cancel markers.         *)
LEMMA ViewersDisturbNothing ==
    ASSUME HostInv,
           UNCHANGED <<run, fileVars, writer, lockFile, workerVars, parentVars, crashes>>,
           cancel' \subseteq Runs, runLock' \in [Runs -> Holders],
           \A r \in Runs : runLock[r] \in Actors \ {Nobody} => runLock'[r] = runLock[r]
    PROVE  HostInv'
<1> USE DEF HostInv
<1>1. UNCHANGED <<run, pc, parent, writer>> /\ LockTypes'
    BY DEF LockInv, LockTypes, workerVars, parentVars
<1>2. WorkersHold' /\ ParentsHold'
    BY <1>1, ActorsDiffer, AreActors
       DEF LockInv, LockTypes, WorkersHold, ParentsHold, Workers
<1>3. FileTypes'
    BY Zenon DEF HostTypeInv, FileTypes, fileVars
<1>4. WorkerTypes' /\ ParentTypes' /\ OtherTypes'
    BY DEF HostTypeInv, WorkerTypes, ParentTypes, OtherTypes, workerVars, parentVars
<1>5. HistoryInv'
    BY HistoryKept DEF fileVars, workerVars, parentVars
<1>6. MarksInv'
    BY DEF MarksInv, parentVars
<1> QED  BY <1>1, <1>2, <1>3, <1>4, <1>5, <1>6, Zenon DEF LockInv, HostTypeInv

LEMMA ViewStepHost ==
    ASSUME HostInv, ViewTypes, ViewersHold, NEW v \in Viewers, ViewStep(v)
    PROVE  HostInv'
<1>1. /\ cancel \subseteq Runs /\ runLock \in [Runs -> Holders]
      /\ about[v] \in Runs
      /\ view[v] = "holding" => runLock[about[v]] = Viewer(v)
    BY DEF HostInv, HostTypeInv, OtherTypes, LockTypes, ViewTypes, ViewersHold
<1>2. /\ Viewer(v) \in Holders /\ Viewer(v) \notin Actors /\ Nobody \in Holders
      /\ runLock \in [Runs -> Holders] /\ cancel \subseteq Runs
    BY <1>1, ViewersAreHolders, AreActors DEF Actors
<1>3. CASE ProbeLock(v)
    <2>1. \/ runLock' = runLock
          \/ /\ runLock[about[v]] = Nobody
             /\ runLock' = [runLock EXCEPT ![about[v]] = Viewer(v)]
        BY <1>3 DEF ProbeLock
    <2>2. /\ UNCHANGED <<run, fileVars, writer, lockFile, workerVars, parentVars, crashes>>
          /\ cancel' \subseteq Runs
        BY <1>2, <1>3 DEF ProbeLock
    <2>3. /\ runLock' \in [Runs -> Holders]
          /\ \A r \in Runs : runLock[r] \in Actors \ {Nobody} => runLock'[r] = runLock[r]
        BY <1>1, <1>2, <2>1
    <2> QED  BY <2>2, <2>3, ViewersDisturbNothing
<1>4. CASE Unprobe(v)
    <2>1. /\ runLock[about[v]] = Viewer(v)
          /\ runLock' = [runLock EXCEPT ![about[v]] = Nobody]
        BY <1>1, <1>4 DEF Unprobe, At
    <2>2. /\ UNCHANGED <<run, fileVars, writer, lockFile, workerVars, parentVars, crashes>>
          /\ cancel' \subseteq Runs
        BY <1>2, <1>4 DEF Unprobe
    <2>3. /\ runLock' \in [Runs -> Holders]
          /\ \A r \in Runs : runLock[r] \in Actors \ {Nobody} => runLock'[r] = runLock[r]
        BY <1>1, <1>2, <2>1
    <2> QED  BY <2>2, <2>3, ViewersDisturbNothing
<1>5. CASE TouchMarker(v)
    <2>1. UNCHANGED <<run, fileVars, writer, runLock, lockFile, workerVars, parentVars, crashes>>
        BY <1>5 DEF TouchMarker, lockVars
    <2>2. cancel' \subseteq Runs
        BY <1>1, <1>5 DEF TouchMarker
    <2> QED  BY <1>2, <2>1, <2>2, ViewersDisturbNothing
<1>6. CASE Ask(v) \/ ReadLog(v) \/ Inspect(v) \/ YieldRecord(v) \/ EndOfRecords(v)
    <2>1. UNCHANGED vars
        BY <1>6 DEF Ask, ReadLog, Inspect, YieldRecord, EndOfRecords, ViewerKeeps
    <2> QED  BY <1>1, <2>1, ViewersDisturbNothing DEF vars, lockVars
<1> QED  BY <1>3, <1>4, <1>5, <1>6 DEF ViewStep

(* What a run's state is, by its history and by whether a process holds it. *)
LEMMA StatesOf ==
    ASSUME NEW h, NEW holder
    PROVE  /\ Stopped(h) => StateOf(h, holder) = "finished"
           /\ ~Stopped(h) /\ holder \in Probing \cup {Nobody} =>
                 StateOf(h, holder) = IF Begun(h) THEN "interrupted" ELSE "not_found"
           /\ ~Stopped(h) /\ holder \notin Probing \cup {Nobody} =>
                 StateOf(h, holder) = "running"
BY BegunAndStopped DEF StateOf, Open

LEMMA StateIsAState == \A h, holder : StateOf(h, holder) \in States
<1> SUFFICES ASSUME NEW h, NEW holder PROVE StateOf(h, holder) \in States
    OBVIOUS
<1>1. CASE Stopped(h)
    BY <1>1, StatesOf DEF States
<1>2. CASE ~Stopped(h) /\ holder \in Probing \cup {Nobody}
    BY <1>2, StatesOf DEF States
<1>3. CASE ~Stopped(h) /\ holder \notin Probing \cup {Nobody}
    BY <1>3, StatesOf DEF States
<1> QED  BY <1>1, <1>2, <1>3

(* What run_status can say, and of what.                                    *)
LEMMA InspectSays ==
    ASSUME NEW v \in Viewers, Inspect(v)
    PROVE  LET h == history[about[v]]
           IN  /\ view[v] = "inspect"
               /\ \E at \in {"touch", "done"} : view' = [view EXCEPT ![v] = at]
               /\ \/ Says(v, "error") \/ Says(v, "running")
                  \/ Says(v, "finished") /\ Stopped(h)
                  \/ Says(v, "interrupted") /\ Begun(records[v]) /\ ~Stopped(h) /\ ~alive[v]
                  \/ Says(v, "not_found") /\ ~Begun(records[v]) /\ ~alive[v]
<1>1. view[v] = "inspect" /\ \E at \in {"touch", "done"} : view' = [view EXCEPT ![v] = at]
    BY DEF Inspect, At
<1>2. CASE ~Begun(records[v]) /\ alive[v]
    BY <1>1, <1>2 DEF Inspect
<1>3. CASE ~Begun(records[v]) /\ ~alive[v]
    BY <1>1, <1>3 DEF Inspect
<1>4. CASE Begun(records[v]) /\ Stopped(history[about[v]])
    BY <1>1, <1>4 DEF Inspect
<1>5. CASE Begun(records[v]) /\ ~Stopped(history[about[v]]) /\ alive[v]
    BY <1>1, <1>5 DEF Inspect
<1>6. CASE Begun(records[v]) /\ ~Stopped(history[about[v]]) /\ ~alive[v]
    BY <1>1, <1>6 DEF Inspect
<1> QED  BY <1>2, <1>3, <1>4, <1>5, <1>6

LEMMA ViewTypesNext ==
    ASSUME HostTypeInv, ViewTypes, [ViewNext]_allVars PROVE ViewTypes'
<1> USE DEF ViewTypes
<1>1. ASSUME Witness PROVE seen' \in [Viewers -> SUBSET States]
    <2>1. \A w \in Viewers : StateOf(history[about[w]], runLock[about[w]]) \in States
        BY StateIsAState
    <2> QED  BY <1>1, <2>1 DEF Witness
<1>2. CASE HostStep
    BY <1>1, <1>2 DEF HostStep
<1>3. ASSUME NEW v \in Viewers, ViewStep(v) PROVE ViewTypes'
    <2>1. Witness /\ UNCHANGED about
        BY <1>3 DEF ViewStep, Ask, ProbeLock, Unprobe, ReadLog, Inspect, TouchMarker,
           YieldRecord, EndOfRecords, ViewerKeeps
    <2>2. \E at \in ViewPcs : view' = [view EXCEPT ![v] = at]
        BY <1>3 DEF ViewStep, Ask, ProbeLock, Unprobe, ReadLog, Inspect, TouchMarker,
           YieldRecord, EndOfRecords, At, ViewPcs
    <2>3. alive' = alive \/ \E b \in BOOLEAN : alive' = [alive EXCEPT ![v] = b]
        BY <1>3 DEF ViewStep, Ask, ProbeLock, Unprobe, ReadLog, Inspect, TouchMarker,
           YieldRecord, EndOfRecords, ViewerKeeps
    <2>4. records' = records \/ records' = [records EXCEPT ![v] = history[about[v]]]
        BY <1>3 DEF ViewStep, Ask, ProbeLock, Unprobe, ReadLog, Inspect, TouchMarker,
           YieldRecord, EndOfRecords, ViewerKeeps
    <2>5. \/ yielded' = yielded
          \/ \E n \in DOMAIN records[v] :
                yielded' = [yielded EXCEPT ![v] = Append(@, records[v][n])]
        <3>1. CASE YieldRecord(v)
            <4>1. /\ Len(yielded[v]) \in Nat /\ Len(records[v]) \in Nat
                  /\ DOMAIN records[v] = 1 .. Len(records[v])
                OBVIOUS
            <4>2. /\ Len(yielded[v]) + 1 <= Len(records[v])
                  /\ yielded' = [yielded EXCEPT
                                     ![v] = Append(@, records[v][Len(yielded[v]) + 1])]
                BY <3>1 DEF YieldRecord
            <4>3. Len(yielded[v]) + 1 \in DOMAIN records[v]
                BY <4>1, <4>2
            <4> QED  BY <4>2, <4>3
        <3> QED  BY <1>3, <3>1 DEF ViewStep, Ask, ProbeLock, Unprobe, ReadLog, Inspect,
                 TouchMarker, EndOfRecords, ViewerKeeps
    <2>6. answer' = answer \/ \E a \in Sayings : answer' = [answer EXCEPT ![v] = a]
        <3>1. answer' = answer \/ \E a \in Sayings : Says(v, a)
            <4>1. CASE Inspect(v)
                BY <4>1, InspectSays DEF Sayings
            <4>2. CASE Ask(v) \/ ProbeLock(v) \/ Unprobe(v)
                BY <4>2 DEF Ask, ProbeLock, Unprobe
            <4>3. CASE ReadLog(v) \/ TouchMarker(v) \/ YieldRecord(v) \/ EndOfRecords(v)
                BY <4>3 DEF ReadLog, TouchMarker, YieldRecord, EndOfRecords, Sayings
            <4> QED  BY <1>3, <4>1, <4>2, <4>3 DEF ViewStep
        <3> QED  BY <3>1 DEF Says
    <2>7. history[about[v]] \in Seq(Event)
        BY DEF HostTypeInv, FileTypes
    <2>8. alive' \in [Viewers -> BOOLEAN]
        BY <2>3
    <2>9. yielded' \in [Viewers -> Seq(Event)]
        <3>1. ASSUME NEW n \in DOMAIN records[v]
              PROVE  Append(yielded[v], records[v][n]) \in Seq(Event)
            <4>1. records[v] \in Seq(Event) /\ yielded[v] \in Seq(Event)
                OBVIOUS
            <4>2. records[v][n] \in Event
                BY <4>1
            <4> QED  BY <4>1, <4>2
        <3> QED  BY <2>5, <3>1
    <2> QED  BY ZenonT(40), <1>1, <2>1, <2>2, <2>4, <2>6, <2>7, <2>8, <2>9
<1>4. CASE UNCHANGED allVars
    BY <1>4 DEF allVars, viewVars
<1> QED  BY <1>2, <1>3, <1>4 DEF ViewNext

(* A process takes no lock from a viewer.                                   *)
LEMMA ProbesAreRespected ==
    ASSUME HostInv, [Next]_vars, NEW r \in Runs, runLock[r] \in Probing
    PROVE  runLock'[r] = runLock[r]
<1> USE DEF fileVars, lockVars
<1>1. \A p : runLock[r] # Worker(p) /\ runLock[r] # Parent(p) /\ runLock[r] # Nobody
    BY ViewersAreHolders DEF Probing
<1>2. /\ run \in [Workers -> Runs] /\ runLock \in [Runs -> Holders]
      /\ \A p \in Workers : pc[p] = "releaseRun" => runLock[run[p]] = Worker(p)
      /\ \A c \in Cli : parent[c] \in SealRunPcs => runLock[run[c]] = Parent(c)
    BY DEF HostInv, LockInv, LockTypes, WorkersHold, ParentsHold, RunLockPcs
<1>3. ASSUME NEW p \in Workers, WorkerStep(p) \/ Crash(p) PROVE runLock'[r] = runLock[r]
    <2>1. CASE TakeRunLock(p) \/ ReleaseRun(p) \/ Crash(p)
        BY <1>1, <1>2, <2>1 DEF TakeRunLock, ReleaseRun, Crash, Dies
    <2> QED  BY <1>3, <2>1 DEF WorkerStep, BuildSink, Truncate, TakeWriter, CheckFresh,
             CheckResume, LogStart, LogInterrupted, LogResumed, Work, Verdict, LogStop,
             Appends, ReleaseWriter
<1>4. ASSUME NEW c \in Cli, ParentStep(c) \/ ParentCrash(c) PROVE runLock'[r] = runLock[r]
    <2>1. c \in Workers
        BY DEF Workers
    <2>2. CASE SealRun(c) \/ SealRead(c) \/ SealStop(c)
        BY <1>1, <1>2, <2>1, <2>2 DEF SealRun, SealRead, SealStop, SealUnlock, SealRunPcs
    <2>3. CASE ParentCrash(c) \/ KillWorker(c)
        BY <1>1, <1>2, <2>1, <2>3 DEF ParentCrash, KillWorker, Dies
    <2> QED  BY <1>4, <2>2, <2>3 DEF ParentStep, Precheck, Deliver, LoseWorker, SealWriter,
             SealStart
<1>5. CASE (\E s \in Runs : RequestCancel(s)) \/ UNCHANGED vars
    BY <1>5 DEF RequestCancel, vars
<1> QED  BY <1>3, <1>4, <1>5 DEF Next

(* Where each step of a viewer takes it.                                    *)
LEMMA ViewerMoves ==
    ASSUME ViewTypes, NEW v \in Viewers, ViewStep(v)
    PROVE  /\ Witness /\ about' = about
           /\ \A w \in Viewers \ {v} :
                 /\ view'[w] = view[w] /\ alive'[w] = alive[w] /\ records'[w] = records[w]
                 /\ yielded'[w] = yielded[w] /\ answer'[w] = answer[w]
           /\ history' = history
<1> USE DEF ViewTypes
<1>1. Witness /\ about' = about /\ history' = history
    BY DEF ViewStep, Ask, ProbeLock, Unprobe, ReadLog, Inspect, TouchMarker,
       YieldRecord, EndOfRecords, ViewerKeeps, vars, fileVars
<1>2. \A w \in Viewers \ {v} : view'[w] = view[w]
    BY DEF ViewStep, Ask, ProbeLock, Unprobe, ReadLog, Inspect, TouchMarker,
       YieldRecord, EndOfRecords, At
<1>3. \A w \in Viewers \ {v} : alive'[w] = alive[w] /\ records'[w] = records[w]
    BY DEF ViewStep, Ask, ProbeLock, Unprobe, ReadLog, Inspect, TouchMarker,
       YieldRecord, EndOfRecords, ViewerKeeps
<1>4. \A w \in Viewers \ {v} : yielded'[w] = yielded[w]
    BY DEF ViewStep, Ask, ProbeLock, Unprobe, ReadLog, Inspect, TouchMarker,
       YieldRecord, EndOfRecords, ViewerKeeps
<1>5. \A w \in Viewers \ {v} : answer'[w] = answer[w]
    <2>1. CASE Inspect(v)
        BY ZenonT(40), <2>1, InspectSays DEF Says
    <2>2. CASE ReadLog(v)
        BY <2>2 DEF ReadLog, Says
    <2>3. CASE Ask(v) \/ ProbeLock(v) \/ Unprobe(v) \/ TouchMarker(v)
        BY <2>3 DEF Ask, ProbeLock, Unprobe, TouchMarker, Says
    <2>4. CASE YieldRecord(v) \/ EndOfRecords(v)
        BY <2>4 DEF YieldRecord, EndOfRecords, Says
    <2> QED  BY <2>1, <2>2, <2>3, <2>4 DEF ViewStep
<1> QED  BY <1>1, <1>2, <1>3, <1>4, <1>5

LEMMA ViewersHoldNext ==
    ASSUME HostInv, ViewTypes, ViewersHold, [ViewNext]_allVars PROVE ViewersHold'
<1> USE DEF ViewTypes
<1>1. /\ \A w \in Viewers : view[w] = "holding" => runLock[about[w]] = Viewer(w)
      /\ runLock \in [Runs -> Holders]
    BY DEF ViewersHold, HostInv, HostTypeInv, LockTypes
<1>2. CASE HostStep \/ UNCHANGED allVars
    <2>1. [Next]_vars /\ UNCHANGED <<view, about>>
        BY <1>2 DEF HostStep, allVars, viewVars
    <2>2. \A w \in Viewers : Viewer(w) \in Probing
        BY DEF Probing
    <2> QED  BY <1>1, <2>1, <2>2, ProbesAreRespected DEF ViewersHold
<1>3. ASSUME NEW v \in Viewers, ViewStep(v) PROVE ViewersHold'
    <2>1. about' = about /\ \A w \in Viewers \ {v} : view'[w] = view[w]
        BY <1>3, ViewerMoves
    <2>2. CASE ProbeLock(v)
        <3>1. \/ runLock' = runLock /\ view'[v] = "read"
              \/ /\ runLock[about[v]] = Nobody
                 /\ runLock' = [runLock EXCEPT ![about[v]] = Viewer(v)]
            BY <2>2 DEF ProbeLock, At
        <3>2. ASSUME NEW w \in Viewers \ {v}, view'[w] = "holding"
              PROVE  runLock'[about'[w]] = Viewer(w)
            <4>1. runLock[about[w]] = Viewer(w) /\ Viewer(w) # Nobody /\ about'[w] = about[w]
                BY <1>1, <2>1, <3>2, ViewersAreHolders
            <4> QED  BY <1>1, <3>1, <4>1
        <3>3. view'[v] = "holding" => runLock'[about'[v]] = Viewer(v)
            BY <1>1, <2>1, <3>1
        <3> QED  BY <3>2, <3>3 DEF ViewersHold
    <2>3. CASE Unprobe(v)
        <3>1. /\ runLock[about[v]] = Viewer(v) /\ view'[v] = "read"
              /\ runLock' = [runLock EXCEPT ![about[v]] = Nobody]
            BY <1>1, <2>3 DEF Unprobe, At
        <3> QED  BY <1>1, <2>1, <3>1, ViewersAreHolders DEF ViewersHold
    <2>4. CASE Ask(v) \/ ReadLog(v) \/ TouchMarker(v) \/ YieldRecord(v) \/ EndOfRecords(v)
        <3>1. runLock' = runLock /\ view'[v] # "holding"
            BY <2>4 DEF Ask, ReadLog, TouchMarker, YieldRecord, EndOfRecords, At,
               ViewerKeeps, vars, lockVars
        <3> QED  BY <1>1, <2>1, <3>1 DEF ViewersHold
    <2>5. CASE Inspect(v)
        <3>1. runLock' = runLock /\ view'[v] # "holding"
            BY <2>5, InspectSays DEF Inspect, ViewerKeeps, vars, lockVars
        <3> QED  BY <1>1, <2>1, <3>1 DEF ViewersHold
    <2> QED  BY <1>3, <2>2, <2>3, <2>4, <2>5 DEF ViewStep
<1> QED  BY <1>2, <1>3 DEF ViewNext

(* A run's lock is held only once its lock file is there.                   *)
LockedHasFile == \A r \in Runs : r \notin lockFile => runLock[r] = Nobody

LEMMA LockedHasFileNext ==
    ASSUME HostTypeInv, LockedHasFile, [ViewNext]_allVars PROVE LockedHasFile'
<1> USE DEF LockedHasFile, fileVars, lockVars
<1>1. runLock \in [Runs -> Holders]
    BY DEF HostTypeInv, LockTypes
<1>2. ASSUME NEW p \in Workers, WorkerStep(p) \/ Crash(p) PROVE LockedHasFile'
    <2>1. CASE TakeRunLock(p) \/ ReleaseRun(p) \/ Crash(p)
        BY <1>1, <2>1 DEF TakeRunLock, ReleaseRun, Crash, Dies
    <2> QED  BY <1>2, <2>1 DEF WorkerStep, BuildSink, Truncate, TakeWriter, CheckFresh,
             CheckResume, LogStart, LogInterrupted, LogResumed, Work, Verdict, LogStop,
             Appends, ReleaseWriter
<1>3. ASSUME NEW c \in Cli, ParentStep(c) \/ ParentCrash(c) PROVE LockedHasFile'
    <2>1. CASE SealRun(c) \/ SealRead(c) \/ SealStop(c)
        BY <1>1, <2>1 DEF SealRun, SealRead, SealStop, SealUnlock
    <2>2. CASE ParentCrash(c) \/ KillWorker(c)
        BY <1>1, <2>2 DEF ParentCrash, KillWorker, Dies
    <2> QED  BY <1>3, <2>1, <2>2 DEF ParentStep, Precheck, Deliver, LoseWorker, SealWriter,
             SealStart
<1>4. ASSUME NEW r \in Runs, RequestCancel(r) PROVE LockedHasFile'
    BY <1>4 DEF RequestCancel
<1>5. ASSUME NEW v \in Viewers, ViewStep(v) PROVE LockedHasFile'
    <2>1. CASE ProbeLock(v) \/ Unprobe(v)
        BY <1>1, <2>1 DEF ProbeLock, Unprobe
    <2> QED  BY <1>5, <2>1 DEF ViewStep, Ask, ReadLog, Inspect, TouchMarker, YieldRecord,
             EndOfRecords, ViewerKeeps, vars
<1>6. CASE UNCHANGED allVars
    BY <1>6 DEF allVars, vars
<1> QED  BY <1>2, <1>3, <1>4, <1>5, <1>6 DEF ViewNext, HostStep, Next

-----------------------------------------------------------------------------
(* What a viewer has read is still the beginning of what is there.          *)

Prefix(g, h) == Len(g) <= Len(h) /\ \A i \in 1 .. Len(g) : g[i] = h[i]

LEMMA Prefixes ==
    ASSUME NEW f \in Seq(Event), NEW g \in Seq(Event), NEW h \in Seq(Event),
           Prefix(f, g), Prefix(g, h)
    PROVE  /\ Prefix(f, h)
           /\ Begun(f) => Begun(g)
           /\ Stopped(f) => Stopped(g)
           /\ Len(g) <= Len(f) /\ Stopped(g) => Stopped(f)
<1>1. /\ Len(f) \in Nat /\ Len(g) \in Nat /\ Len(h) \in Nat
      /\ DOMAIN f = 1 .. Len(f) /\ DOMAIN g = 1 .. Len(g)
    OBVIOUS
<1>2. Prefix(f, h)
    BY <1>1 DEF Prefix
<1>3. Begun(f) => Begun(g)
    <2>1. (Begun(f) <=> Len(f) # 0) /\ (Begun(g) <=> Len(g) # 0)
        BY DEF Begun
    <2> QED  BY <1>1, <2>1 DEF Prefix
<1>4. Stopped(f) => Stopped(g)
    BY <1>1 DEF Stopped, Stops, Prefix
<1>5. Len(g) <= Len(f) /\ Stopped(g) => Stopped(f)
    BY <1>1 DEF Stopped, Stops, Prefix
<1> QED  BY <1>2, <1>3, <1>4, <1>5

LEMMA PrefixOfItself == \A h \in Seq(Event) : Prefix(h, h)
BY DEF Prefix

LEMMA HistoriesGrow ==
    ASSUME Truncating = {}, HostInv, [Next]_vars, NEW r \in Runs
    PROVE  Prefix(history[r], history'[r])
<1>1. history \in [Runs -> Seq(Event)] /\ history[r] \in Seq(Event)
    BY DEF HostInv, HostTypeInv, FileTypes
<1>2. CASE history' = history
    BY <1>1, <1>2, PrefixOfItself
<1>3. ASSUME NEW s \in Runs, NEW e \in Event, history' = [history EXCEPT ![s] = Append(@, e)]
      PROVE  Prefix(history[r], history'[r])
    <2>1. CASE r = s
        BY <1>1, <1>3, <2>1 DEF Prefix
    <2>2. CASE r # s
        BY <1>1, <1>3, <2>2, PrefixOfItself
    <2> QED  BY <2>1, <2>2
<1> QED  BY <1>2, <1>3, FileSteps DEF Appending, Write

-----------------------------------------------------------------------------
(* A follower: what it has read is the beginning of the history, and what    *)
(* it has printed the beginning of that, with no stop before its own end.   *)

Following ==
    \A v \in Viewers : /\ Prefix(records[v], history[about[v]])
                       /\ Prefix(yielded[v], records[v])
                       /\ view[v] # "done" => ~Stopped(yielded[v])
                       /\ answer[v] = "stopped" => Stopped(yielded[v])

LEMMA FollowingNext ==
    ASSUME Truncating = {}, HostInv, ViewTypes, Following, [ViewNext]_allVars, HostInv'
    PROVE  Following'
<1> USE DEF ViewTypes
<1>1. /\ \A v \in Viewers : /\ records[v] \in Seq(Event) /\ yielded[v] \in Seq(Event)
                            /\ about[v] \in Runs
      /\ \A r \in Runs : history[r] \in Seq(Event) /\ history'[r] \in Seq(Event)
    BY DEF HostInv, HostTypeInv, FileTypes
<1>2. CASE HostStep \/ UNCHANGED allVars
    <2>1. [Next]_vars /\ UNCHANGED <<view, about, records, yielded, answer>>
        BY <1>2 DEF HostStep, allVars, viewVars
    <2> SUFFICES ASSUME NEW v \in Viewers PROVE Prefix(records[v], history'[about[v]])
        BY <2>1 DEF Following
    <2>2. Prefix(records[v], history[about[v]]) /\ Prefix(history[about[v]], history'[about[v]])
        BY <1>1, <2>1, HistoriesGrow DEF Following
    <2> QED  BY <1>1, <2>2, Prefixes
<1>3. ASSUME NEW v \in Viewers, ViewStep(v) PROVE Following'
    <2> DEFINE Follows(w) == /\ Prefix(records[w], history[about[w]])
                             /\ Prefix(yielded[w], records[w])
                             /\ view[w] # "done" => ~Stopped(yielded[w])
                             /\ answer[w] = "stopped" => Stopped(yielded[w])
    <2>1. Follows(v)
        BY DEF Following
    <2>2. history' = history /\ about' = about
        BY <1>3, ViewerMoves
    <2>3. \A w \in Viewers \ {v} : Follows(w)'
        BY <1>3, ViewerMoves DEF Following
    <2> SUFFICES Follows(v)'
        BY <2>3 DEF Following
    <2>4. CASE Ask(v) \/ ProbeLock(v) \/ Unprobe(v) \/ TouchMarker(v)
        <3>1. /\ UNCHANGED <<records, yielded>> /\ view[v] # "done"
              /\ answer'[v] \in {answer[v], "cancel_requested"}
            BY <2>4 DEF Ask, ProbeLock, Unprobe, TouchMarker, Says, At
        <3> QED  BY <2>1, <2>2, <3>1
    <2>5. CASE Inspect(v)
        <3>1. /\ UNCHANGED <<records, yielded>> /\ view[v] # "done"
              /\ answer'[v] # "stopped"
            BY ZenonT(40), <2>5, InspectSays DEF Inspect, Says
        <3> QED  BY <2>1, <2>2, <3>1
    <2>6. CASE EndOfRecords(v)
        <3>1. /\ UNCHANGED <<records, yielded>> /\ view[v] # "done"
              /\ answer'[v] \in {answer[v], "interrupted", "timed_out"}
            BY <2>6 DEF EndOfRecords, Says, At
        <3> QED  BY <2>1, <2>2, <3>1
    <2>7. CASE ReadLog(v)
        <3>1. /\ UNCHANGED yielded /\ view[v] # "done"
              /\ answer'[v] \in {answer[v], "error"}
              /\ records'[v] \in {records[v], history[about[v]]}
            BY <2>7 DEF ReadLog, Says, At
        <3>2. Prefix(yielded[v], records'[v]) /\ Prefix(records'[v], history[about[v]])
            BY <1>1, <2>1, <3>1, Prefixes, PrefixOfItself
        <3> QED  BY <2>1, <2>2, <3>1, <3>2
    <2>8. CASE YieldRecord(v)
        <3> DEFINE n == Len(yielded[v]) + 1
                   y == Append(yielded[v], records[v][n])
        <3>1. /\ n <= Len(records[v]) /\ view[v] = "yield"
              /\ yielded'[v] = y /\ UNCHANGED records
              /\ \/ records[v][n].kind = "run_stopped" /\ view'[v] = "done"
                 \/ /\ records[v][n].kind # "run_stopped" /\ answer' = answer
            BY <2>8 DEF YieldRecord, At
        <3>2. /\ y \in Seq(Event) /\ Len(y) = n /\ y[n] = records[v][n] /\ n \in Nat
              /\ \A i \in 1 .. n - 1 : y[i] = yielded[v][i]
              /\ DOMAIN y = 1 .. n /\ DOMAIN yielded[v] = 1 .. n - 1
              /\ Len(yielded[v]) = n - 1 /\ Len(records[v]) \in Nat
            <4>1. n \in DOMAIN records[v]
                BY <1>1, <3>1
            <4>2. records[v][n] \in Event
                BY <1>1, <4>1
            <4> QED  BY <1>1, <4>2
        <3> HIDE DEF n, y
        <3>3. Prefix(y, records[v])
            <4>1. \A i \in 1 .. n - 1 : yielded[v][i] = records[v][i]
                BY <2>1, <3>2 DEF Prefix
            <4>2. ASSUME NEW i \in 1 .. n PROVE y[i] = records[v][i]
                <5>1. CASE i = n
                    BY <3>2, <5>1
                <5>2. CASE i # n
                    <6>1. i \in 1 .. n - 1
                        BY <3>2, <5>2
                    <6> QED  BY <3>2, <4>1, <6>1
                <5> QED  BY <5>1, <5>2
            <4> QED  BY <3>1, <3>2, <4>2 DEF Prefix
        <3>4. Stopped(y) <=> records[v][n].kind = "run_stopped"
            <4>1. ~Stopped(yielded[v])
                BY <2>1, <3>1
            <4>2. \A i \in 1 .. n - 1 : y[i].kind # "run_stopped"
                BY <3>2, <4>1 DEF Stopped, Stops
            <4>3. Stopped(y) <=> \E i \in 1 .. n : y[i].kind = "run_stopped"
                BY <3>2 DEF Stopped, Stops
            <4> QED  BY <3>2, <4>2, <4>3
        <3>5. answer[v] # "stopped"
            BY <2>1, <3>1
        <3> QED  BY <2>1, <2>2, <3>1, <3>3, <3>4, <3>5
    <2> QED  BY <1>3, <2>4, <2>5, <2>6, <2>7, <2>8 DEF ViewStep
<1> QED  BY <1>2, <1>3 DEF ViewNext

-----------------------------------------------------------------------------
(* A state in which the run had been left by its process, or had not begun.  *)
Lapsed(v) == seen[v] \cap {"interrupted", "not_found"} # {}

(* A probe that found no lock was made of a run no process held.  If the     *)
(* history read after it shows no stop, there was none at the probe, and     *)
(* what the run was then is one of the states that v has seen.              *)
Watched(v) ==
    /\ view[v] = "holding" \/ (view[v] = "read" /\ ~alive[v]) =>
          /\ Stopped(history[about[v]]) \/ Lapsed(v)
          /\ Begun(history[about[v]]) \/ "not_found" \in seen[v]
    /\ view[v] \in {"inspect", "yield"} /\ ~alive[v] =>
          /\ Stopped(records[v]) \/ Lapsed(v)
          /\ Begun(records[v]) \/ "not_found" \in seen[v]
    /\ answer[v] = "interrupted" => Lapsed(v)
    /\ answer[v] \in {"finished", "not_found"} => answer[v] \in seen[v]

Watching == \A v \in Viewers : Watched(v)

(* What viewer w knows holds on, whatever happens to the history, as long as *)
(* it only grows.                                                           *)
LEMMA WatchedKept ==
    ASSUME NEW w \in Viewers, Watched(w),
           Begun(history[about[w]]) => Begun(history'[about[w]]),
           Stopped(history[about[w]]) => Stopped(history'[about[w]]),
           UNCHANGED <<view[w], alive[w], records[w], answer[w], about>>,
           seen[w] \subseteq seen'[w]
    PROVE  Watched(w)'
BY DEF Watched, Lapsed

LEMMA SeenGrows ==
    ASSUME ViewTypes, Witness, NEW w \in Viewers
    PROVE  /\ seen[w] \subseteq seen'[w]
           /\ view[w] \notin {"idle", "done"} =>
                 StateOf(history[about[w]], runLock[about[w]]) \in seen'[w]
BY DEF ViewTypes, Witness

LEMMA WatchingNext ==
    ASSUME Truncating = {}, HostInv, HostInv', ViewTypes, LockedHasFile, Following,
           Watching, [ViewNext]_allVars
    PROVE  Watching'
<1> USE DEF ViewTypes
<1>1. /\ \A v \in Viewers : /\ records[v] \in Seq(Event) /\ yielded[v] \in Seq(Event)
                            /\ about[v] \in Runs
      /\ \A r \in Runs : history[r] \in Seq(Event) /\ history'[r] \in Seq(Event)
    BY DEF HostInv, HostTypeInv, FileTypes
<1>2. CASE HostStep \/ UNCHANGED allVars
    <2>1. [Next]_vars /\ UNCHANGED <<view, about, alive, records, answer>>
        BY <1>2 DEF HostStep, allVars, viewVars
    <2> SUFFICES ASSUME NEW w \in Viewers PROVE Watched(w)'
        BY DEF Watching
    <2>2. seen[w] \subseteq seen'[w]
        BY <1>2, SeenGrows DEF HostStep, allVars, viewVars
    <2>3. Prefix(history[about[w]], history'[about[w]])
        BY <1>1, <2>1, HistoriesGrow
    <2>4. /\ Begun(history[about[w]]) => Begun(history'[about[w]])
          /\ Stopped(history[about[w]]) => Stopped(history'[about[w]])
        BY <1>1, <2>3, Prefixes, PrefixOfItself
    <2> QED  BY <2>1, <2>2, <2>4, WatchedKept DEF Watching
<1>3. ASSUME NEW v \in Viewers, ViewStep(v) PROVE Watching'
    <2>1. Witness /\ about' = about /\ history' = history
        BY <1>3, ViewerMoves
    <2>2. \A w \in Viewers : seen[w] \subseteq seen'[w]
        BY <2>1, SeenGrows
    <2>3. \A w \in Viewers \ {v} : Watched(w)'
        BY <1>3, <2>1, <2>2, ViewerMoves, WatchedKept DEF Watching
    <2> SUFFICES Watched(v)'
        BY <2>3 DEF Watching
    <2> DEFINE h == history[about[v]]
    <2>4. Watched(v) /\ seen[v] \subseteq seen'[v] /\ (Lapsed(v) => Lapsed(v)')
        BY <2>2 DEF Watching, Lapsed
    <2>5. view[v] \notin {"idle", "done"} => StateOf(h, runLock[about[v]]) \in seen'[v]
        BY <2>1, SeenGrows
    <2>6. CASE Ask(v)
        <3>1. UNCHANGED <<records, answer>> /\ view'[v] = "probe"
            BY <2>6 DEF Ask, At
        <3> QED  BY <2>1, <2>4, <3>1 DEF Watched
    <2>7. CASE ProbeLock(v)
        <3>1. UNCHANGED <<records, answer>> /\ view[v] = "probe"
            BY <2>7 DEF ProbeLock, At
        <3>2. CASE view'[v] = "read" /\ alive'[v]
            BY <2>1, <2>4, <3>1, <3>2 DEF Watched
        <3>3. CASE runLock[about[v]] = Nobody /\ view'[v] \in {"read", "holding"}
            <4>1. /\ Stopped(h) \/ Begun(h) => Stopped(h) \/ "interrupted" \in seen'[v]
                  /\ ~Stopped(h) /\ ~Begun(h) => "not_found" \in seen'[v]
                BY <2>5, <3>1, <3>3, StatesOf
            <4>2. Stopped(h) => Begun(h)
                BY BegunAndStopped
            <4>3. /\ Stopped(h) \/ Lapsed(v)'
                  /\ Begun(h) \/ "not_found" \in seen'[v]
                BY <4>1, <4>2 DEF Lapsed
            <4> QED  BY <2>1, <2>4, <3>1, <3>3, <4>3 DEF Watched
        <3>4. \/ view'[v] = "read" /\ alive'[v]
              \/ runLock[about[v]] = Nobody /\ view'[v] \in {"read", "holding"}
            BY <1>1, <2>7 DEF ProbeLock, At, LockedHasFile
        <3> QED  BY <3>2, <3>3, <3>4
    <2>8. CASE Unprobe(v)
        <3>1. /\ UNCHANGED <<records, answer>> /\ view[v] = "holding"
              /\ view'[v] = "read" /\ ~alive'[v]
            BY <2>8 DEF Unprobe, At
        <3> QED  BY <2>1, <2>4, <3>1 DEF Watched
    <2>9. CASE ReadLog(v)
        <3>1. /\ view[v] = "read" /\ UNCHANGED alive /\ answer'[v] \in {answer[v], "error"}
              /\ \/ view'[v] = "done"
                 \/ view'[v] \in {"inspect", "yield"} /\ records'[v] = h
            BY <2>9 DEF ReadLog, At, Says
        <3> QED  BY <2>1, <2>4, <3>1 DEF Watched
    <2>10. CASE Inspect(v)
        <3>1. /\ UNCHANGED <<alive, records>> /\ view[v] = "inspect"
              /\ view'[v] \in {"touch", "done"}
            BY <2>10, InspectSays DEF Inspect
        <3>2. /\ answer'[v] = "interrupted" => /\ Begun(records[v]) /\ ~Stopped(h)
                                               /\ ~alive[v]
              /\ answer'[v] = "finished" => Stopped(h)
              /\ answer'[v] = "not_found" => ~Begun(records[v]) /\ ~alive[v]
            BY <2>10, InspectSays DEF Says
        <3>3. Stopped(records[v]) => Stopped(h)
            BY <1>1, Prefixes, PrefixOfItself DEF Following
        <3>4. answer'[v] = "interrupted" => Lapsed(v)'
            BY <2>4, <3>1, <3>2, <3>3 DEF Watched
        <3>5. answer'[v] = "finished" => "finished" \in seen'[v]
            BY <2>5, <3>1, <3>2, StatesOf
        <3>6. answer'[v] = "not_found" => "not_found" \in seen'[v]
            BY <2>4, <3>1, <3>2 DEF Watched
        <3> QED  BY <3>1, <3>4, <3>5, <3>6 DEF Watched
    <2>11. CASE TouchMarker(v)
        <3>1. view'[v] = "done" /\ answer'[v] = "cancel_requested"
            BY <2>11 DEF TouchMarker, At, Says
        <3> QED  BY <3>1 DEF Watched
    <2>12. CASE YieldRecord(v)
        <3>1. /\ UNCHANGED <<alive, records>> /\ answer'[v] \in {answer[v], "stopped"}
              /\ view[v] = "yield" /\ view'[v] \in {"yield", "done"}
            BY <2>12 DEF YieldRecord, At, Says
        <3> QED  BY <2>4, <3>1 DEF Watched
    <2>13. CASE EndOfRecords(v)
        <3>1. /\ UNCHANGED <<alive, records>> /\ view[v] = "yield"
              /\ view'[v] \in {"probe", "done"} /\ Len(yielded[v]) >= Len(records[v])
              /\ \/ answer'[v] \in {answer[v], "timed_out"}
                 \/ answer'[v] = "interrupted" /\ ~alive[v]
            BY <2>13 DEF EndOfRecords, At, Says
        <3>2. ~Stopped(yielded[v]) /\ Prefix(yielded[v], records[v])
            BY <3>1 DEF Following
        <3>3. ~Stopped(records[v])
            <4>1. Len(records[v]) <= Len(yielded[v])
                BY <1>1, <3>1
            <4> QED  BY <1>1, <3>2, <4>1, Prefixes, PrefixOfItself
        <3> QED  BY <2>4, <3>1, <3>3 DEF Watched
    <2> QED  BY <1>3, <2>6, <2>7, <2>8, <2>9, <2>10, <2>11, <2>12, <2>13 DEF ViewStep
<1> QED  BY <1>2, <1>3 DEF ViewNext

ViewInv == /\ HostInv /\ ViewTypes /\ ViewersHold /\ LockedHasFile
           /\ Following /\ Watching

LEMMA ViewInvInit == ViewInit => ViewInv
<1> SUFFICES ASSUME ViewInit PROVE ViewInv
    OBVIOUS
<1>1. HostInv
    BY HostInvInit DEF ViewInit
<1>2. ViewTypes
    BY DEF ViewInit, ViewTypes, ViewPcs, Sayings
<1>3. ViewersHold /\ LockedHasFile
    BY DEF ViewInit, Init, ViewersHold, LockedHasFile
<1>4. Watching
    BY DEF ViewInit, Watching, Watched
<1>5. Following
    <2> SUFFICES ASSUME NEW v \in Viewers
                 PROVE  /\ Prefix(records[v], history[about[v]])
                        /\ Prefix(yielded[v], records[v])
                        /\ ~Stopped(yielded[v]) /\ answer[v] # "stopped"
        BY DEF Following
    <2>1. /\ records[v] = <<>> /\ yielded[v] = <<>> /\ answer[v] = "none"
          /\ about[v] \in Runs /\ history[about[v]] = <<>>
        BY DEF ViewInit, Init
    <2> QED  BY <2>1 DEF Prefix, Stopped, Stops
<1> QED  BY <1>1, <1>2, <1>3, <1>4, <1>5 DEF ViewInv

LEMMA ViewInvNext ==
    ASSUME Truncating = {} PROVE ViewInv /\ [ViewNext]_allVars => ViewInv'
<1> SUFFICES ASSUME ViewInv, [ViewNext]_allVars PROVE ViewInv'
    OBVIOUS
<1>1. HostInv'
    <2>1. CASE HostStep \/ UNCHANGED allVars
        BY <2>1, HostInvNext DEF ViewInv, HostStep, allVars
    <2> QED  BY <2>1, ViewStepHost DEF ViewInv, ViewNext
<1>2. ViewTypes'
    BY ViewTypesNext DEF ViewInv, HostInv
<1>3. ViewersHold' /\ LockedHasFile'
    BY ViewersHoldNext, LockedHasFileNext DEF ViewInv, HostInv
<1>4. Following' /\ Watching'
    BY <1>1, FollowingNext, WatchingNext DEF ViewInv
<1> QED  BY <1>1, <1>2, <1>3, <1>4 DEF ViewInv

LEMMA FollowingSuffices == ViewInv => FollowerMissesNothing
<1> SUFFICES ASSUME ViewInv, ~corrupt, NEW v \in Viewers
             PROVE  /\ Len(yielded[v]) <= Len(history[about[v]])
                    /\ yielded[v] = SubSeq(history[about[v]], 1, Len(yielded[v]))
                    /\ answer[v] = "stopped" => yielded[v] = history[about[v]]
    BY DEF FollowerMissesNothing
<1> DEFINE h == history[about[v]]
           y == yielded[v]
<1>1. h \in Seq(Event) /\ y \in Seq(Event) /\ records[v] \in Seq(Event) /\ ValidHistory(h)
    BY DEF ViewInv, HostInv, HostTypeInv, FileTypes, ViewTypes, HistoryInv
<1>2. Prefix(y, h) /\ (answer[v] = "stopped" => Stopped(y))
    BY <1>1, Prefixes DEF ViewInv, Following
<1> HIDE DEF h, y
<1>3. /\ Len(y) \in Nat /\ Len(h) \in Nat /\ DOMAIN y = 1 .. Len(y) /\ DOMAIN h = 1 .. Len(h)
      /\ Len(y) <= Len(h) /\ \A i \in 1 .. Len(y) : y[i] = h[i]
    BY <1>1, <1>2 DEF Prefix
<1>4. y = SubSeq(h, 1, Len(y))
    <2> DEFINE s == SubSeq(h, 1, Len(y))
    <2>1. s \in Seq(Event) /\ Len(s) = Len(y) /\ \A i \in 1 .. Len(y) : s[i] = h[i]
        BY <1>1, <1>3
    <2> HIDE DEF s
    <2>2. s = y
        BY <1>1, <1>3, <2>1
    <2> QED  BY <2>2 DEF s
<1>5. ASSUME Stopped(y) PROVE y = h
    <2>1. PICK i \in 1 .. Len(y) : y[i].kind = "run_stopped"
        BY <1>3, <1>5 DEF Stopped, Stops
    <2>2. i = Len(h)
        BY <1>1, <1>3, <2>1 DEF ValidHistory
    <2>3. Len(y) = Len(h)
        <3>1. Len(h) \in 1 .. Len(y)
            BY <2>2
        <3>2. Len(y) \in Nat /\ Len(h) \in Nat /\ Len(y) <= Len(h)
            BY <1>3
        <3>3. Len(h) <= Len(y)
            BY <3>1, <3>2
        <3> QED  BY <3>2, <3>3
    <2> QED  BY <1>1, <1>3, <2>3
<1> QED  BY <1>2, <1>3, <1>4, <1>5 DEF h, y

LEMMA WatchingSuffices == ViewInv => StoppingIsNotInterrupted
BY DEF ViewInv, Watching, Watched, Lapsed, StoppingIsNotInterrupted

(* However many viewers probe the locks and read the log beside them, the    *)
(* processes still append one at a time, and every history stays valid.     *)
THEOREM ViewersAreHarmless ==
    ASSUME Truncating = {} PROVE ViewSpec => [](OneWriter /\ HistoryValid)
<1>1. ViewInv => OneWriter /\ HistoryValid
    BY LocksImplyOneWriter, HistoryInvSuffices DEF ViewInv, HostInv
<1> QED  BY <1>1, ViewInvInit, ViewInvNext, PTL DEF ViewSpec

(* What status, cancel and follow say of a run was so at some moment of the  *)
(* query, though no two of their reads were made at the same one.           *)
THEOREM AnswersWereSo == ASSUME Truncating = {} PROVE ViewSpec => []StoppingIsNotInterrupted
BY ViewInvInit, ViewInvNext, WatchingSuffices, PTL DEF ViewSpec

(* A follower prints every record, once each and in order, and ends with the *)
(* run's stop only after all that came before it.                           *)
THEOREM FollowersSeeItAll == ASSUME Truncating = {} PROVE ViewSpec => []FollowerMissesNothing
BY ViewInvInit, ViewInvNext, FollowingSuffices, PTL DEF ViewSpec
=============================================================================
