--------------------------- MODULE ShutdownProofs ---------------------------
(***************************************************************************)
(* Proofs about the end of the simulation: whoever cleans up, exits or dies *)
(* in the middle of it, no GUI is left behind unless an employee misread    *)
(* its type, a clean_up that was finished leaves nothing, and one that a    *)
(* reader cut short at most the last queue.                                *)
(***************************************************************************)
EXTENDS Shutdown, TLAPS

-----------------------------------------------------------------------------
(* The inductive invariant                                                 *)

\* The labels of the main thread while it creates the queues, and until it forks.
Creating == {"load", "touch", "ui queue", "patcher queue", "printer queue", "info"}
Alone == Creating \cup {"mutexes", "fork"}

LEMMA LabelsAre ==
  /\ {Creates[q] : q \in Queues} = {"ui queue", "patcher queue", "printer queue"}
  /\ Creates[Ui] = "ui queue"
  /\ \A q \in Queues : Creates[q] \in Creating /\ AfterCreating(q) \in Creating
<1>1. /\ Queues = {1, 2, 3} /\ Creates[1] = "ui queue"
      /\ Creates[2] = "patcher queue" /\ Creates[3] = "printer queue"
  BY DEF Queues, NumQueues, Creates
<1>2. /\ AfterCreating(1) = Creates[2] /\ AfterCreating(2) = Creates[3]
      /\ AfterCreating(3) = "info"
  BY DEF AfterCreating, NumQueues
<1>3. QED
  BY <1>1, <1>2 DEF Creating, Ui

\* Until it forks, the main thread is the only one.
MainAlone ==
  main \in Alone =>
    started = {} /\ ~handling /\ \A c \in Cleaners \ {"main"} : cleaner[c] = Idle

\* The main thread cleans up when a queue or the fork failed, and stays there.
MainCleaning ==
  /\ cleaner["main"] # Idle => main \in Creating \/ (main = "fork" /\ gui = "failed")
  /\ main \in Creating \cup {"mutexes"} => gui = "none"
  /\ main = "fork" => gui \in {"none", "failed"}
  /\ gui = "failed" => main = "fork" /\ cleaner["main"] # Idle

\* What a run of clean_up is past is gone, and nothing else is.
GoneBehind ==
  /\ \A c \in Cleaners, q \in Queues : cleaner[c] > Remove(q) => q \notin queue
  /\ \A c \in Cleaners : cleaner[c] = Exit => ~file
  /\ \A c \in Cleaners \ {"child"} : cleaner[c] > Kill => ~GuiLives
GoneByCleanUp ==
  main \notin Creating =>
    \A q \in Queues : q \in queue \/ \E c \in Cleaners : cleaner[c] > Remove(q)

\* A child that cleans up never becomes the GUI, nor does one whose parent is gone.
ChildOrGui ==
  /\ cleaner["child"] # Idle => gui \in {"forked", "ended"}
  /\ ~Alive /\ endedBy # "misread" =>
       /\ gui \notin {"starting", "running"}
       /\ gui = "forked" => cleaner["child"] # Idle

CleanUpInv ==
  /\ TypeOK /\ MainAlone /\ MainCleaning
  /\ GoneBehind /\ GoneByCleanUp /\ ChildOrGui
  /\ OrphanOnlyByMisread /\ ReaderLeavesOneQueue /\ NothingLeftAfterCleanUp

-----------------------------------------------------------------------------
(* The main thread                                                         *)

\* What the program starts with.
LEMMA InitInv == Init => CleanUpInv
<1> SUFFICES ASSUME Init PROVE CleanUpInv
  OBVIOUS
<1>1. cleaner \in [Cleaners -> Idle..Exit]
  BY DEF Init, Idle, Exit, Files, Remove, NumQueues
<1>2. \A c \in Cleaners : cleaner[c] = 0
  BY DEF Init, Idle
<1>3. TypeOK
  BY <1>1 DEF Init, TypeOK, Nobody
<1>4. MainAlone /\ MainCleaning
  BY DEF Init, MainAlone, MainCleaning, Cleaners, Creating, Alone
<1>5. GoneBehind /\ GoneByCleanUp
  BY <1>2 DEF Init, GoneBehind, GoneByCleanUp, GuiLives, Creating, Kill, Exit, Files, Remove,
              Queues, NumQueues
<1>6. ChildOrGui /\ OrphanOnlyByMisread /\ ReaderLeavesOneQueue /\ NothingLeftAfterCleanUp
  BY DEF Init, ChildOrGui, OrphanOnlyByMisread, ReaderLeavesOneQueue, NothingLeftAfterCleanUp,
         Alive, Nobody, Cleaners
<1>7. QED
  BY <1>3, <1>4, <1>5, <1>6 DEF CleanUpInv

\* The values are read, or the program ends without a queue or a GUI.
LEMMA MainLoadKeeps ==
  ASSUME CleanUpInv, MainLoad
  PROVE  CleanUpInv'
<1> USE DEF CleanUpInv, MainAt
<1>1. TypeOK'
  BY DEF MainLoad, TypeOK
<1>2. MainAlone'
  BY DEF MainLoad, MainAlone, Creating, Alone
<1>3. MainCleaning'
  BY DEF MainLoad, MainCleaning, Creating
<1>4. GoneByCleanUp'
  BY DEF MainLoad, GoneByCleanUp, Creating
<1>5. ChildOrGui'
  BY DEF MainLoad, MainCleaning, ChildOrGui, Creating
<1>6. OrphanOnlyByMisread'
  BY DEF MainLoad, MainCleaning, OrphanOnlyByMisread, Creating
<1>7. ReaderLeavesOneQueue'
  BY DEF MainLoad, ReaderLeavesOneQueue
<1>8. NothingLeftAfterCleanUp'
  BY DEF MainLoad, NothingLeftAfterCleanUp, Cleaners
<1>9. GoneBehind'
  BY DEF MainLoad, GoneBehind, GuiLives
<1>10. QED
  BY <1>1, <1>2, <1>3, <1>4, <1>5, <1>6, <1>7, <1>8, <1>9

\* The key files are made.
LEMMA MainTouchKeeps ==
  ASSUME CleanUpInv, MainTouch
  PROVE  CleanUpInv'
<1> USE LabelsAre DEF CleanUpInv, MainAt
<1>1. TypeOK'
  BY DEF MainTouch, TypeOK
<1>2. MainAlone'
  BY DEF MainTouch, MainAlone, Creating, Alone
<1>3. MainCleaning'
  BY DEF MainTouch, MainCleaning, Creating
<1>4. GoneBehind'
  <2>1. main = "touch" /\ \A c \in Cleaners : cleaner'[c] = 0
    BY DEF MainTouch, MainAlone, Creating, Alone, Idle
  <2>2. UNCHANGED <<queue, gui, cleaner>>
    BY DEF MainTouch
  <2>3. QED
    BY ONLY <2>1, <2>2 DEF GoneBehind, Queues, NumQueues, Kill, Remove, Files, Exit
<1>5. GoneByCleanUp'
  BY DEF MainTouch, GoneByCleanUp, Creating
<1>6. NothingLeftAfterCleanUp'
  BY DEF MainTouch, NothingLeftAfterCleanUp, Alive, Nobody, Cleaners
<1>7. ChildOrGui' /\ OrphanOnlyByMisread' /\ ReaderLeavesOneQueue'
  BY DEF MainTouch, ChildOrGui, OrphanOnlyByMisread, ReaderLeavesOneQueue, Alive
<1>8. QED
  BY <1>1, <1>2, <1>3, <1>4, <1>5, <1>6, <1>7

\* While the queues are created no other thread runs: what the main thread does then
\* is undone by nobody, nor is what it leaves out.
LEMMA CreatingKeeps ==
  ASSUME CleanUpInv, main \in Creating, cleaner["main"] = Idle, Alive,
         queue' \subseteq Queues, main' \in Creating \cup {"mutexes"},
         \/ cleaner' = cleaner
         \/ main' \in Creating /\ cleaner' = [cleaner EXCEPT !["main"] = Kill],
         main' = "mutexes" => queue' = Queues,
         UNCHANGED <<file, started, gui, handling, endedBy, spared>>
  PROVE  CleanUpInv'
<1> USE DEF Idle, Kill, Remove, Files, Exit, NumQueues
<1>1. /\ started = {} /\ ~handling /\ gui = "none" /\ \A c \in Cleaners : cleaner[c] = 0
      /\ cleaner \in [Cleaners -> 0..6]
  BY DEF CleanUpInv, TypeOK, MainAlone, MainCleaning, Alone
<1>2. /\ cleaner' \in [Cleaners -> 0..6]
      /\ \A c \in Cleaners : cleaner'[c] \in {0, 1}
      /\ \A c \in Cleaners \ {"main"} : cleaner'[c] = 0
      /\ cleaner'["main"] # 0 => main' \in Creating
  BY <1>1
<1>3. TypeOK'
  <2>1. main' \in {"load", "touch", "info", "mutexes", "fork", "signal", "join"}
                  \cup {Creates[q] : q \in Queues}
    BY LabelsAre DEF Creating
  <2>2. QED
    BY <1>2, <2>1 DEF CleanUpInv, TypeOK
<1>4. MainAlone' /\ MainCleaning'
  BY <1>1, <1>2 DEF MainAlone, MainCleaning, Creating
<1>5. GoneBehind'
  BY <1>1, <1>2 DEF GoneBehind, GuiLives, Queues
<1>6. GoneByCleanUp'
  BY DEF GoneByCleanUp
<1>7. ChildOrGui' /\ OrphanOnlyByMisread'
  BY <1>1, <1>2 DEF ChildOrGui, OrphanOnlyByMisread, Alive, Cleaners
<1>8. ReaderLeavesOneQueue' /\ NothingLeftAfterCleanUp'
  BY DEF ReaderLeavesOneQueue, NothingLeftAfterCleanUp, Alive, Nobody, Cleaners
<1>9. QED
  BY <1>3, <1>4, <1>5, <1>6, <1>7, <1>8 DEF CleanUpInv

\* A queue is created or missing, or the main thread begins to clean up.
LEMMA MainQueuesKeeps ==
  ASSUME CleanUpInv, MainQueues
  PROVE  CleanUpInv'
<1>1. PICK q \in Queues :
        /\ MainAt(Creates[q])
        /\ \/ queue' \in {queue, queue \cup {q}} /\ main' = AfterCreating(q) /\ UNCHANGED cleaner
           \/ CleanUp("main") /\ UNCHANGED <<queue, main>>
        /\ UNCHANGED <<file, started, gui, handling, endedBy, spared>>
  BY DEF MainQueues
<1>2. main \in Creating /\ cleaner["main"] = Idle /\ Alive /\ AfterCreating(q) \in Creating
  BY <1>1, LabelsAre DEF MainAt
<1>3. queue \subseteq Queues
  BY DEF CleanUpInv, TypeOK
<1>4. queue' \subseteq Queues /\ main' \in Creating
  BY <1>1, <1>2, <1>3
<1>5. main' # "mutexes"
  BY <1>4 DEF Creating
<1>6. QED
  BY <1>1, <1>2, <1>4, <1>5, CreatingKeeps DEF CleanUp

\* The three queues are there, or the main thread begins to clean up.
LEMMA MainInfoKeeps ==
  ASSUME CleanUpInv, MainInfo
  PROVE  CleanUpInv'
<1>1. /\ main \in Creating /\ main = "info" /\ cleaner["main"] = Idle /\ Alive
      /\ \/ queue = Queues /\ main' = "mutexes" /\ UNCHANGED cleaner
         \/ CleanUp("main") /\ UNCHANGED main
      /\ UNCHANGED <<queue, file, started, gui, handling, endedBy, spared>>
  BY DEF MainInfo, MainAt, Creating
<1>2. queue' \subseteq Queues
  BY <1>1 DEF CleanUpInv, TypeOK
<1>3. QED
  BY <1>1, <1>2, CreatingKeeps DEF CleanUp

\* The mutexes are made: nothing of clean_up depends on them.
LEMMA MainMutexesKeeps ==
  ASSUME CleanUpInv, MainMutexes
  PROVE  CleanUpInv'
<1> USE DEF CleanUpInv, MainAt
<1>1. TypeOK'
  BY DEF MainMutexes, TypeOK
<1>2. MainAlone'
  BY DEF MainMutexes, MainAlone, Alone
<1>3. MainCleaning'
  BY DEF MainMutexes, MainCleaning
<1>4. GoneByCleanUp'
  BY DEF MainMutexes, GoneByCleanUp, Creating
<1>5. GoneBehind' /\ ChildOrGui' /\ OrphanOnlyByMisread'
      /\ ReaderLeavesOneQueue' /\ NothingLeftAfterCleanUp'
  BY DEF MainMutexes, GoneBehind, ChildOrGui, OrphanOnlyByMisread, ReaderLeavesOneQueue,
         NothingLeftAfterCleanUp, Alive, GuiLives
<1>6. QED
  BY <1>1, <1>2, <1>3, <1>4, <1>5

\* The GUI process begins, when no thread can clean up yet, or the main thread does.
LEMMA MainForkKeeps ==
  ASSUME CleanUpInv, MainFork
  PROVE  CleanUpInv'
<1> USE DEF CleanUpInv, MainAt, CleanUp
<1>1. TypeOK'
  BY DEF MainFork, TypeOK, NumQueues, Idle, Kill, Remove, Files, Exit
<1>2. MainAlone'
  BY DEF MainFork, TypeOK, MainAlone, Alone
<1>3. /\ main = "fork" /\ main \notin Creating /\ "signal" \notin Creating
      /\ cleaner["main"] = Idle /\ cleaner \in [Cleaners -> Idle..Exit]
      /\ UNCHANGED queue
      /\ \/ gui' = "forked" /\ main' = "signal" /\ UNCHANGED cleaner
         \/ /\ gui' = "failed" /\ main' = main
            /\ cleaner' = [cleaner EXCEPT !["main"] = Kill]
  BY DEF MainFork, TypeOK, Creating
<1>4. MainCleaning'
  <2>1. cleaner'["main"] = IF main' = "fork" THEN Kill ELSE Idle
    BY <1>3 DEF Cleaners
  <2>2. QED
    BY <1>3, <2>1 DEF MainCleaning, Idle, Kill
<1>5. GoneBehind'
  BY DEF MainFork, TypeOK, MainAlone, GoneBehind, Alone, Queues, NumQueues, Idle, Kill,
         Remove, Files, Exit
<1>6. GoneByCleanUp'
  <2>1. \A c \in Cleaners : cleaner[c] = Idle
    BY <1>3 DEF MainAlone, Alone
  <2>2. \A q \in Queues : q \in queue
    BY <1>3, <2>1 DEF GoneByCleanUp, Queues, Idle, Remove
  <2>3. QED
    BY <1>3, <2>2 DEF GoneByCleanUp
<1>7. ChildOrGui'
  BY DEF MainFork, TypeOK, MainCleaning, ChildOrGui, Alive, Cleaners
<1>8. OrphanOnlyByMisread'
  BY DEF MainFork, OrphanOnlyByMisread
<1>9. ReaderLeavesOneQueue' /\ NothingLeftAfterCleanUp'
  BY DEF MainFork, ReaderLeavesOneQueue, NothingLeftAfterCleanUp
<1>10. QED
  BY <1>1, <1>2, <1>4, <1>5, <1>6, <1>7, <1>8, <1>9

\* From here on SIGINT leads to clean_up.
LEMMA MainSignalKeeps ==
  ASSUME CleanUpInv, MainSignal
  PROVE  CleanUpInv'
<1> USE DEF CleanUpInv, MainAt
<1>1. TypeOK'
  BY DEF MainSignal, TypeOK, Workers, Threads
<1>2. MainAlone'
  BY DEF MainSignal, MainAlone, Creating, Alone
<1>3. MainCleaning'
  BY DEF MainSignal, MainCleaning, Creating
<1>4. GoneByCleanUp'
  BY DEF MainSignal, GoneByCleanUp, Creating
<1>5. GoneBehind' /\ ChildOrGui' /\ OrphanOnlyByMisread'
      /\ ReaderLeavesOneQueue' /\ NothingLeftAfterCleanUp'
  BY DEF MainSignal, GoneBehind, ChildOrGui, OrphanOnlyByMisread, ReaderLeavesOneQueue,
         NothingLeftAfterCleanUp, Alive, GuiLives
<1>6. QED
  BY <1>1, <1>2, <1>3, <1>4, <1>5

\* A thread starts, or the main thread waits for those that never return.
LEMMA MainStartKeeps ==
  ASSUME CleanUpInv, MainStart
  PROVE  CleanUpInv'
<1> USE DEF CleanUpInv, MainAt, Start, StartProduction
<1>1. TypeOK'
  <2>1. /\ main' \in {"join"} \cup Threads
        /\ \E t \in Threads : started' = started \cup {t}
    BY DEF MainStart, Start, StartProduction, Threads, Workers, Readers
  <2>2. started' \subseteq Threads
    <3>1. started \subseteq Threads
      BY DEF CleanUpInv, TypeOK
    <3>2. QED
      BY <2>1, <3>1
  <2>3. UNCHANGED <<queue, file, gui, handling, cleaner, endedBy, spared>>
    BY DEF MainStart
  <2>4. TypeOK
    BY DEF CleanUpInv
  <2> HIDE DEF Threads
  <2>5. QED
    BY <2>1, <2>2, <2>3, <2>4 DEF TypeOK
<1>2. MainAlone'
  BY DEF MainStart, MainAlone, Creating, Alone
<1>3. MainCleaning'
  BY DEF MainStart, MainCleaning, Creating
<1>4. GoneByCleanUp'
  BY DEF MainStart, GoneByCleanUp, Creating
<1>5. GoneBehind' /\ ChildOrGui' /\ OrphanOnlyByMisread'
      /\ ReaderLeavesOneQueue' /\ NothingLeftAfterCleanUp'
  BY DEF MainStart, GoneBehind, ChildOrGui, OrphanOnlyByMisread, ReaderLeavesOneQueue,
         NothingLeftAfterCleanUp, Alive, GuiLives
<1>6. QED
  BY <1>1, <1>2, <1>3, <1>4, <1>5

-----------------------------------------------------------------------------
(* Reasons to end                                                          *)

\* The timer begins to clean up.
LEMMA TimerFiresKeeps ==
  ASSUME CleanUpInv, TimerFires
  PROVE  CleanUpInv'
<1> USE DEF CleanUpInv, CleanUp
<1>1. TypeOK'
  BY DEF TimerFires, TypeOK, Cleaners, NumQueues, Idle, Kill, Remove, Files, Exit
<1>2. MainAlone'
  BY DEF TimerFires, MainAlone
<1>3. MainCleaning'
  BY DEF TimerFires, MainCleaning
<1>4. GoneBehind'
  BY DEF TimerFires, GoneBehind, GuiLives, Queues, NumQueues, Kill, Remove, Files, Exit
<1>5. GoneByCleanUp'
  BY DEF TimerFires, GoneByCleanUp, Queues, Idle, Remove
<1>6. ChildOrGui'
  BY DEF TimerFires, ChildOrGui, Alive
<1>7. OrphanOnlyByMisread' /\ ReaderLeavesOneQueue' /\ NothingLeftAfterCleanUp'
  BY DEF TimerFires, OrphanOnlyByMisread, ReaderLeavesOneQueue, NothingLeftAfterCleanUp, Alive
<1>8. QED
  BY <1>1, <1>2, <1>3, <1>4, <1>5, <1>6, <1>7

\* The termination check begins to clean up, or returns.
LEMMA CheckLooksKeeps ==
  ASSUME CleanUpInv, CheckLooks
  PROVE  CleanUpInv'
<1> USE DEF CleanUpInv, CleanUp
<1>1. TypeOK'
  <2>1. started \subseteq Threads /\ cleaner \in [Cleaners -> Idle..Exit]
    BY DEF TypeOK
  <2>2. Kill \in Idle..Exit
    BY DEF Kill, Idle, Exit, Files, Remove, NumQueues
  <2>3. started' \subseteq Threads
    BY <2>1 DEF CheckLooks
  <2>4. cleaner' \in [Cleaners -> Idle..Exit]
    BY <2>1, <2>2 DEF CheckLooks
  <2>5. UNCHANGED <<queue, file, main, gui, handling, endedBy, spared>>
    BY DEF CheckLooks
  <2>6. QED
    BY <2>3, <2>4, <2>5 DEF TypeOK
<1>2. MainAlone'
  BY DEF CheckLooks, MainAlone
<1>3. MainCleaning'
  BY DEF CheckLooks, TypeOK, MainCleaning, Cleaners
<1>4. GoneBehind'
  BY DEF CheckLooks, TypeOK, GoneBehind, GuiLives, Queues, NumQueues, Kill, Remove,
         Files, Exit
<1>5. GoneByCleanUp'
  BY DEF CheckLooks, TypeOK, GoneByCleanUp, Queues, Idle, Remove
<1>6. ChildOrGui'
  BY DEF CheckLooks, TypeOK, ChildOrGui, Alive, Cleaners
<1>7. OrphanOnlyByMisread' /\ ReaderLeavesOneQueue' /\ NothingLeftAfterCleanUp'
  BY DEF CheckLooks, OrphanOnlyByMisread, ReaderLeavesOneQueue, NothingLeftAfterCleanUp, Alive
<1>8. QED
  BY <1>1, <1>2, <1>3, <1>4, <1>5, <1>6, <1>7

\* An employee begins to clean up, or ends the process.
LEMMA EmployeeMisreadsKeeps ==
  ASSUME CleanUpInv, EmployeeMisreads
  PROVE  CleanUpInv'
<1> USE DEF CleanUpInv, CleanUp
<1>1. TypeOK'
  BY DEF EmployeeMisreads, TypeOK, Cleaners, NumQueues, Idle, Kill, Remove, Files, Exit
<1>2. /\ UNCHANGED <<queue, file, main, started, gui, handling>> /\ Alive
      /\ endedBy' \in {endedBy, "misread"}
      /\ \A c \in Cleaners :
           cleaner'[c] = cleaner[c] \/ (cleaner[c] = Idle /\ cleaner'[c] = Kill)
      /\ \A c \in Cleaners \ {"employee"} : cleaner'[c] = cleaner[c]
      /\ cleaner \in [Cleaners -> Idle..Exit]
  BY DEF EmployeeMisreads, TypeOK
<1>3. MainAlone'
  BY DEF EmployeeMisreads, MainAlone
<1>4. MainCleaning'
  BY <1>2 DEF MainCleaning, Cleaners
<1>5. \A c \in Cleaners : cleaner'[c] > Kill => cleaner[c] = cleaner'[c]
  BY <1>2 DEF Idle, Kill, Exit, Files, Remove, NumQueues
<1>6. \A c \in Cleaners, q \in Queues : cleaner'[c] > Remove(q) <=> cleaner[c] > Remove(q)
  BY <1>2 DEF Idle, Kill, Exit, Files, Remove, NumQueues, Queues
<1>7. GoneBehind'
  <2>1. Exit > Kill
    BY DEF Exit, Files, Remove, NumQueues, Kill
  <2>2. QED
    BY <1>2, <1>5, <1>6, <2>1 DEF GoneBehind, GuiLives
<1>8. GoneByCleanUp'
  BY <1>2, <1>6 DEF GoneByCleanUp
<1>9. ChildOrGui' /\ OrphanOnlyByMisread' /\ ReaderLeavesOneQueue' /\ NothingLeftAfterCleanUp'
  BY <1>2 DEF ChildOrGui, OrphanOnlyByMisread, ReaderLeavesOneQueue,
              NothingLeftAfterCleanUp, Alive, Nobody, Cleaners
<1>10. QED
  BY <1>1, <1>3, <1>4, <1>7, <1>8, <1>9

\* SIGINT ends the GUI, and the simulation or not.
LEMMA InterruptKeeps ==
  ASSUME CleanUpInv, Interrupt
  PROVE  CleanUpInv'
<1> USE DEF CleanUpInv, CleanUp
<1>1. TypeOK'
  BY DEF Interrupt, TypeOK, NumQueues, Idle, Kill, Remove, Files, Exit
<1>2. MainAlone'
  BY DEF Interrupt, MainAlone
<1>3. MainCleaning'
  BY DEF Interrupt, TypeOK, MainCleaning, Cleaners, GuiLives
<1>4. GoneBehind'
  BY DEF Interrupt, TypeOK, GoneBehind, GuiLives, Queues, NumQueues, Kill, Remove,
         Files, Exit
<1>5. GoneByCleanUp'
  BY DEF Interrupt, TypeOK, GoneByCleanUp, Queues, Idle, Remove
<1>6. ChildOrGui'
  BY DEF Interrupt, TypeOK, ChildOrGui, Cleaners, GuiLives
<1>7. OrphanOnlyByMisread'
  BY DEF Interrupt, OrphanOnlyByMisread, GuiLives
<1>8. ReaderLeavesOneQueue'
  BY DEF Interrupt, ReaderLeavesOneQueue
<1>9. NothingLeftAfterCleanUp'
  BY DEF Interrupt, NothingLeftAfterCleanUp, Cleaners
<1>10. QED
  BY <1>1, <1>2, <1>3, <1>4, <1>5, <1>6, <1>7, <1>8, <1>9

\* A reader finds its queue removed by a clean_up: the GUI was killed before, or a child
\* removed the queue, which never becomes the GUI.
LEMMA ReaderFailsKeeps ==
  ASSUME CleanUpInv, NEW r \in Readers, ReaderFails(r)
  PROVE  CleanUpInv'
<1> USE DEF CleanUpInv
<1>1. TypeOK'
  BY DEF ReaderFails, TypeOK
<1>2. ChildOrGui'
  BY DEF ReaderFails, TypeOK, MainCleaning, GoneBehind, GoneByCleanUp, ChildOrGui,
         Readers, QueueOf, GuiLives, Queues, NumQueues, Idle, Kill, Remove
<1>3. OrphanOnlyByMisread'
  BY DEF ReaderFails, TypeOK, MainCleaning, GoneBehind, GoneByCleanUp, ChildOrGui,
         OrphanOnlyByMisread, Readers, QueueOf, GuiLives, Queues, NumQueues, Idle, Kill, Remove
<1>4. ReaderLeavesOneQueue'
  BY DEF ReaderFails, TypeOK, MainAlone, GoneBehind, GoneByCleanUp,
         ReaderLeavesOneQueue, Alone, Readers, QueueOf, Queues, NumQueues, Remove
<1>5. NothingLeftAfterCleanUp'
  BY DEF ReaderFails, NothingLeftAfterCleanUp, Cleaners
<1>6. MainAlone' /\ MainCleaning' /\ GoneBehind' /\ GoneByCleanUp'
  BY DEF ReaderFails, MainAlone, MainCleaning, GoneBehind, GoneByCleanUp,
         GuiLives
<1>7. QED
  BY <1>1, <1>2, <1>3, <1>4, <1>5, <1>6

-----------------------------------------------------------------------------
(* The GUI process                                                         *)

\* The child becomes the GUI, or cleans up.
LEMMA GuiExecKeeps ==
  ASSUME CleanUpInv, GuiExec
  PROVE  CleanUpInv'
<1> USE DEF CleanUpInv, CleanUp
<1>1. TypeOK'
  BY DEF GuiExec, TypeOK, NumQueues, Idle, Kill, Remove, Files, Exit
<1>2. MainAlone'
  <2>1. main \notin Alone /\ main' = main
    BY DEF GuiExec, CleanUpInv, MainCleaning, Alone, Creating
  <2>2. QED
    BY <2>1 DEF MainAlone
<1>3. MainCleaning'
  BY DEF GuiExec, TypeOK, MainCleaning, Cleaners
<1>4. GoneBehind'
  BY DEF GuiExec, TypeOK, GoneBehind, GuiLives, Queues, NumQueues, Kill, Remove, Files,
         Exit
<1>5. GoneByCleanUp'
  BY DEF GuiExec, TypeOK, GoneByCleanUp, Queues, Idle, Remove
<1>6. ChildOrGui'
  BY DEF GuiExec, ChildOrGui, Alive
<1>7. OrphanOnlyByMisread'
  BY DEF GuiExec, ChildOrGui, OrphanOnlyByMisread, Alive
<1>8. ReaderLeavesOneQueue' /\ NothingLeftAfterCleanUp'
  BY DEF GuiExec, ReaderLeavesOneQueue, NothingLeftAfterCleanUp
<1>9. QED
  BY <1>1, <1>2, <1>3, <1>4, <1>5, <1>6, <1>7, <1>8

\* The GUI finds its queue, or ends.
LEMMA GuiSetupKeeps ==
  ASSUME CleanUpInv, GuiSetup
  PROVE  CleanUpInv'
<1> USE DEF CleanUpInv
<1>1. TypeOK'
  BY DEF GuiSetup, TypeOK
<1>2. MainCleaning'
  BY DEF GuiSetup, MainCleaning
<1>3. GoneBehind'
  BY DEF GuiSetup, GoneBehind, GuiLives
<1>4. ChildOrGui'
  BY DEF GuiSetup, ChildOrGui, Alive
<1>5. OrphanOnlyByMisread'
  BY DEF GuiSetup, OrphanOnlyByMisread, Alive
<1>6. MainAlone' /\ GoneByCleanUp'
      /\ ReaderLeavesOneQueue' /\ NothingLeftAfterCleanUp'
  BY DEF GuiSetup, MainAlone, GoneByCleanUp, ReaderLeavesOneQueue,
         NothingLeftAfterCleanUp
<1>7. QED
  BY <1>1, <1>2, <1>3, <1>4, <1>5, <1>6

\* The window is closed.
LEMMA GuiClosesKeeps ==
  ASSUME CleanUpInv, GuiCloses
  PROVE  CleanUpInv'
<1> USE DEF CleanUpInv
<1>1. TypeOK'
  BY DEF GuiCloses, TypeOK
<1>2. MainCleaning'
  BY DEF GuiCloses, MainCleaning
<1>3. GoneBehind'
  BY DEF GuiCloses, GoneBehind, GuiLives
<1>4. ChildOrGui'
  BY DEF GuiCloses, ChildOrGui
<1>5. OrphanOnlyByMisread'
  BY DEF GuiCloses, OrphanOnlyByMisread
<1>6. MainAlone' /\ GoneByCleanUp'
      /\ ReaderLeavesOneQueue' /\ NothingLeftAfterCleanUp'
  BY DEF GuiCloses, MainAlone, GoneByCleanUp, ReaderLeavesOneQueue,
         NothingLeftAfterCleanUp
<1>7. QED
  BY <1>1, <1>2, <1>3, <1>4, <1>5, <1>6

-----------------------------------------------------------------------------
(* clean_up                                                                *)

\* clean_up kills the GUI, if there is one.
LEMMA CleanKillKeeps ==
  ASSUME CleanUpInv, NEW c \in Cleaners, CleanKill(c)
  PROVE  CleanUpInv'
<1> USE DEF CleanUpInv, At, Then, KillGui
<1>1. TypeOK'
  BY DEF CleanKill, TypeOK, Ui, NumQueues, Idle, Remove, Files, Exit
<1>2. MainAlone'
  BY DEF CleanKill, MainAlone, Idle, Kill
<1>3. MainCleaning'
  BY DEF CleanKill, MainCleaning, GuiLives, Ui, Idle, Kill, Remove
<1>4. GoneBehind'
  BY DEF CleanKill, GoneBehind, GuiLives, Queues, Ui, NumQueues, Remove, Files, Exit
<1>5. GoneByCleanUp'
  BY DEF CleanKill, GoneByCleanUp, Queues, Kill, Remove
<1>6. ChildOrGui'
  BY DEF CleanKill, ChildOrGui, GuiLives, Ui, Idle, Kill, Remove
<1>7. OrphanOnlyByMisread'
  BY DEF CleanKill, OrphanOnlyByMisread, GuiLives
<1>8. ReaderLeavesOneQueue' /\ NothingLeftAfterCleanUp'
  BY DEF CleanKill, ReaderLeavesOneQueue, NothingLeftAfterCleanUp
<1>9. QED
  BY <1>1, <1>2, <1>3, <1>4, <1>5, <1>6, <1>7, <1>8

\* clean_up removes the next queue.
LEMMA CleanQueueKeeps ==
  ASSUME CleanUpInv, NEW c \in Cleaners, CleanQueue(c)
  PROVE  CleanUpInv'
<1> USE DEF CleanUpInv, At, Then
<1>1. TypeOK'
  BY DEF CleanQueue, TypeOK, Queues, NumQueues, Idle, Remove, Files, Exit
<1>2. MainAlone'
  BY DEF CleanQueue, MainAlone, Queues, Idle, Remove
<1>3. MainCleaning'
  BY DEF CleanQueue, MainCleaning, Queues, Idle, Remove
<1>4. GoneBehind'
  BY DEF CleanQueue, GoneBehind, GuiLives, Queues, NumQueues, Kill, Remove, Files, Exit
<1>5. GoneByCleanUp'
  BY DEF CleanQueue, TypeOK, GoneByCleanUp, Queues, Remove
<1>6. ChildOrGui'
  BY DEF CleanQueue, ChildOrGui, Alive, Queues, Idle, Remove
<1>7. OrphanOnlyByMisread'
  BY DEF CleanQueue, GoneBehind, OrphanOnlyByMisread, GuiLives, Queues, Kill, Remove
<1>8. ReaderLeavesOneQueue'
  BY DEF CleanQueue, ReaderLeavesOneQueue
<1>9. NothingLeftAfterCleanUp'
  BY DEF CleanQueue, NothingLeftAfterCleanUp
<1>10. QED
  BY <1>1, <1>2, <1>3, <1>4, <1>5, <1>6, <1>7, <1>8, <1>9

\* clean_up removes the files.
LEMMA CleanFilesKeeps ==
  ASSUME CleanUpInv, NEW c \in Cleaners, CleanFiles(c)
  PROVE  CleanUpInv'
<1> USE DEF CleanUpInv, At, Then
<1>1. TypeOK'
  <2>1. cleaner \in [Cleaners -> Idle..Exit] /\ Exit \in Idle..Exit
    BY DEF TypeOK, Idle, Exit, Files, Remove, NumQueues
  <2>2. cleaner' \in [Cleaners -> Idle..Exit]
    BY <2>1 DEF CleanFiles
  <2>3. file' = FALSE /\ UNCHANGED <<queue, main, started, gui, handling, endedBy, spared>>
    BY DEF CleanFiles
  <2>4. QED
    BY <2>2, <2>3 DEF TypeOK
<1>2. MainAlone'
  BY DEF CleanFiles, MainAlone, NumQueues, Idle, Remove, Files
<1>3. MainCleaning'
  BY DEF CleanFiles, MainCleaning, NumQueues, Idle, Remove, Files, Exit
<1>4. GoneBehind'
  BY DEF CleanFiles, GoneBehind, GuiLives, Queues, NumQueues, Kill, Remove, Files
<1>5. GoneByCleanUp'
  BY DEF CleanFiles, GoneByCleanUp, Queues, NumQueues, Remove, Files, Exit
<1>6. ChildOrGui'
  BY DEF CleanFiles, ChildOrGui, Alive, NumQueues, Idle, Remove, Files, Exit
<1>7. NothingLeftAfterCleanUp'
  BY DEF CleanFiles, NothingLeftAfterCleanUp
<1>8. OrphanOnlyByMisread' /\ ReaderLeavesOneQueue'
  BY DEF CleanFiles, OrphanOnlyByMisread, ReaderLeavesOneQueue, Alive
<1>9. QED
  BY <1>1, <1>2, <1>3, <1>4, <1>5, <1>6, <1>7, <1>8

\* clean_up was finished, and its process ends.
LEMMA CleanExitKeeps ==
  ASSUME CleanUpInv, NEW c \in Cleaners, CleanExit(c)
  PROVE  CleanUpInv'
<1> USE DEF CleanUpInv, At
<1>1. TypeOK'
  BY DEF CleanExit, TypeOK
<1>2. MainCleaning'
  BY DEF CleanExit, MainCleaning
<1>3. GoneBehind'
  BY DEF CleanExit, GoneBehind, GuiLives
<1>4. ChildOrGui'
  BY DEF CleanExit, GoneBehind, ChildOrGui, GuiLives, NumQueues, Kill, Remove, Files,
         Exit
<1>5. OrphanOnlyByMisread'
  BY DEF CleanExit, GoneBehind, OrphanOnlyByMisread, GuiLives, NumQueues, Kill, Remove, Files,
         Exit
<1>6. ReaderLeavesOneQueue'
  BY DEF CleanExit, ReaderLeavesOneQueue, Cleaners
<1>7. NothingLeftAfterCleanUp'
  BY DEF CleanExit, TypeOK, GoneBehind, NothingLeftAfterCleanUp, Queues, NumQueues,
         Remove, Files, Exit
<1>8. MainAlone' /\ GoneByCleanUp'
  BY DEF CleanExit, MainAlone, GoneByCleanUp
<1>9. QED
  BY <1>1, <1>2, <1>3, <1>4, <1>5, <1>6, <1>7, <1>8

-----------------------------------------------------------------------------
(* The theorems                                                            *)

\* CleanUpInv is inductive.
LEMMA NextInv == CleanUpInv /\ [Next]_vars => CleanUpInv'
<1> SUFFICES ASSUME CleanUpInv, [Next]_vars PROVE CleanUpInv'
  OBVIOUS
<1>1. CASE MainStep
  BY <1>1, MainLoadKeeps, MainTouchKeeps, MainQueuesKeeps, MainInfoKeeps, MainMutexesKeeps,
     MainForkKeeps, MainSignalKeeps, MainStartKeeps DEF MainStep
<1>2. CASE TimerFires \/ CheckLooks \/ EmployeeMisreads \/ Interrupt
  BY <1>2, TimerFiresKeeps, CheckLooksKeeps, EmployeeMisreadsKeeps, InterruptKeeps
<1>3. CASE \E r \in Readers : ReaderFails(r)
  BY <1>3, ReaderFailsKeeps
<1>4. CASE GuiStep \/ GuiCloses
  BY <1>4, GuiExecKeeps, GuiSetupKeeps, GuiClosesKeeps DEF GuiStep
<1>5. CASE \E c \in Cleaners : CleanStep(c)
  BY <1>5, CleanKillKeeps, CleanQueueKeeps, CleanFilesKeeps, CleanExitKeeps DEF CleanStep
<1>6. CASE UNCHANGED vars
  BY <1>6 DEF vars, CleanUpInv, TypeOK, MainAlone, MainCleaning, GoneBehind,
              GoneByCleanUp, ChildOrGui, OrphanOnlyByMisread, ReaderLeavesOneQueue,
              NothingLeftAfterCleanUp, Alive, GuiLives
<1>7. QED
  BY <1>1, <1>2, <1>3, <1>4, <1>5, <1>6 DEF Next

LEMMA InvHolds == Spec => []CleanUpInv
BY InitInv, NextInv, PTL DEF Spec

\* Every variable keeps its type: no queue but the three is created, and no run of
\* clean_up goes past its exit.
THEOREM TypeCorrect == Spec => []TypeOK
<1>1. CleanUpInv => TypeOK
  BY DEF CleanUpInv
<1>2. QED
  BY <1>1, InvHolds, PTL

\* A GUI is left that would be running, or become so, only when an employee misread its
\* type, however else the simulation ends, also in the middle of a clean_up.
THEOREM OrphanedOnlyByMisread == Spec => []OrphanOnlyByMisread
<1>1. CleanUpInv => OrphanOnlyByMisread
  BY DEF CleanUpInv
<1>2. QED
  BY <1>1, InvHolds, PTL

\* A reader that ends the process in the middle of the clean_up that removed its queue
\* leaves no queue but the printer's.
THEOREM ReaderLeavesLittle == Spec => []ReaderLeavesOneQueue
<1>1. CleanUpInv => ReaderLeavesOneQueue
  BY DEF CleanUpInv
<1>2. QED
  BY <1>1, InvHolds, PTL

\* A clean_up that gets to its end leaves no queue and no file, whoever else cleans up.
THEOREM CleanUpIsComplete == Spec => []NothingLeftAfterCleanUp
<1>1. CleanUpInv => NothingLeftAfterCleanUp
  BY DEF CleanUpInv
<1>2. QED
  BY <1>1, InvHolds, PTL
=============================================================================
