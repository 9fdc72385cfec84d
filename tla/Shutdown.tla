------------------------------ MODULE Shutdown ------------------------------
(***************************************************************************)
(* How the simulation starts and ends: the main thread reads the user's     *)
(* values, creates the message queues and the mutexes, forks the GUI and    *)
(* starts the threads.  The process ends                                   *)
(*                                                                         *)
(*   - by an input file that is missing or has a line without a value,      *)
(*   - by the timer thread, after the minutes the user gave,               *)
(*   - by the termination check, which looks once, when it is created,     *)
(*   - by SIGINT, which reaches the GUI as well,                           *)
(*   - by the patcher or the printer, when msgrcv fails on a removed queue, *)
(*   - by a failure to set up a queue or to fork,                          *)
(*   - by an employee who misreads its type or its place on the lines.     *)
(*                                                                         *)
(* clean_up kills the GUI and removes the queues and their files.  It runs *)
(* in any of these threads, in two at a time, and in the GUI's process when *)
(* exec fails.  exit in one thread ends all of them wherever they are.     *)
(*                                                                         *)
(* Left out: what the threads do in between (the other modules), a touch, a *)
(* kill or a removal that the system refuses, a second SIGINT, two          *)
(* employees that clean up.                                                *)
(***************************************************************************)
EXTENDS Naturals

\* The message queues, in the order of their creation and of their removal.
Ui == 1
NumQueues == 3
Queues == 1..NumQueues

\* The labels of the main thread where it creates them, and where it is next.
Creates == <<"ui queue", "patcher queue", "printer queue">>
AfterCreating(q) == IF q = NumQueues THEN "info" ELSE Creates[q + 1]

\* The threads that receive from a queue, and which.
Readers == {"patcher", "printer"}
Workers == {"generator", "employees"}
QueueOf == [patcher |-> 2, printer |-> 3]

\* Where clean_up can run.  "child" is the forked process before its exec.
Cleaners == {"main", "timer", "check", "employee", "handler", "child"}

\* The steps of clean_up: the GUI, the queues in order, the files, exit.
Idle == 0
Kill == 1
Remove(q) == 1 + q
Files == Remove(NumQueues) + 1
Exit == Files + 1

VARIABLES
  queue,    \* the queues that exist
  file,     \* the key files exist
  main,     \* what the main thread does next
  started,  \* the threads that were started and did not return
  gui,      \* the GUI process
  handling, \* interrupt_sig_handler is registered
  cleaner,  \* the next step of each run of clean_up
  endedBy,  \* what ended the simulation process
  spared    \* no process but the GUI was killed

vars == <<queue, file, main, started, gui, handling, cleaner, endedBy, spared>>

Threads == Workers \cup Readers \cup {"timer", "check"}
Nobody == "nobody"

Init ==
  /\ queue = {} /\ file = FALSE
  /\ main = "load"
  /\ started = {}
  /\ gui = "none"
  /\ handling = FALSE
  /\ cleaner = [c \in Cleaners |-> Idle]
  /\ endedBy = Nobody
  /\ spared = TRUE

Alive == endedBy = Nobody

CleanUp(c) == cleaner' = [cleaner EXCEPT ![c] = Kill]

\* The main thread is at label, and not in clean_up.
MainAt(label) == Alive /\ main = label /\ cleaner["main"] = Idle

-----------------------------------------------------------------------------
(* main                                                                    *)

\* load_user_defined_values: a missing file ends the program, and so does a line
\* of one word, whose value is a null pointer to atoi.
MainLoad ==
  /\ MainAt("load")
  /\ \/ main' = "touch" /\ UNCHANGED endedBy
     \/ endedBy' = "input" /\ UNCHANGED main
  /\ UNCHANGED <<queue, file, started, gui, handling, cleaner, spared>>

\* The key files, new each time.
MainTouch ==
  /\ MainAt("touch")
  /\ file' = TRUE
  /\ main' = Creates[Ui]
  /\ UNCHANGED <<queue, started, gui, handling, cleaner, endedBy, spared>>

\* MUTANT of MainQueues: one queue more is created.
MainQueuesPast ==
  \E q \in Queues :
    /\ MainAt(Creates[q])
    /\ queue' = queue \cup {q, q + 1}
    /\ main' = AfterCreating(q)
    /\ UNCHANGED <<file, started, gui, handling, cleaner, endedBy, spared>>

\* create_and_setup_message_queues: one queue after the other.  A failure of the first
\* one, or of its key, leads to clean_up.  That of another one is not noticed: the test
\* looks at its key, which is there.
MainQueues ==
  \E q \in Queues :
    /\ MainAt(Creates[q])
    /\ \/ queue' = queue \cup {q} /\ main' = AfterCreating(q) /\ UNCHANGED cleaner
       \/ q = Ui /\ CleanUp("main") /\ UNCHANGED <<queue, main>>
       \/ q # Ui /\ main' = AfterCreating(q) /\ UNCHANGED <<queue, cleaner>>
    /\ UNCHANGED <<file, started, gui, handling, endedBy, spared>>

\* The rest of it makes the queues larger: reading what they are like fails for a queue
\* that is missing, and may fail for any.
MainInfo ==
  /\ MainAt("info")
  /\ \/ queue = Queues /\ main' = "mutexes" /\ UNCHANGED cleaner
     \/ CleanUp("main") /\ UNCHANGED main
  /\ UNCHANGED <<queue, file, started, gui, handling, endedBy, spared>>

\* initiate_mutexes: its failures are looked for at -1, which pthread_mutex_init
\* never returns, so that it goes on whatever happens.
MainMutexes ==
  /\ MainAt("mutexes")
  /\ main' = "fork"
  /\ UNCHANGED <<queue, file, started, gui, handling, cleaner, endedBy, spared>>

\* run_gui in the parent.  When fork fails gui_pid is -1.
MainFork ==
  /\ MainAt("fork")
  /\ \/ gui' = "forked" /\ main' = "signal" /\ UNCHANGED cleaner
     \/ gui' = "failed" /\ CleanUp("main") /\ UNCHANGED main
  /\ UNCHANGED <<queue, file, started, handling, endedBy, spared>>

MainSignal ==
  /\ MainAt("signal")
  /\ handling' = TRUE
  /\ main' = "generator"
  /\ UNCHANGED <<queue, file, started, gui, cleaner, endedBy, spared>>

\* pthread_create: a failure would be a positive number, and is not looked for.
Start(t, next) == MainAt(t) /\ started' = started \cup {t} /\ main' = next

StartProduction ==
  \/ Start("generator", "employees") \/ Start("employees", "patcher")
  \/ Start("patcher", "printer") \/ Start("printer", "check")

\* MUTANT of MainStart: the threads that go on for ever are joined before the
\* timer is started.
MainStartJoining ==
  /\ StartProduction \/ Start("check", "join")
  /\ UNCHANGED <<queue, file, gui, handling, cleaner, endedBy, spared>>

\* start_simulation, createThreads: the threads of the production, the check and
\* the timer, in this order; then threads that never return are joined.
MainStart ==
  /\ StartProduction \/ Start("check", "timer") \/ Start("timer", "join")
  /\ UNCHANGED <<queue, file, gui, handling, cleaner, endedBy, spared>>

MainStep ==
  \/ MainLoad \/ MainTouch \/ MainQueues \/ MainInfo \/ MainMutexes \/ MainFork
  \/ MainSignal \/ MainStart

-----------------------------------------------------------------------------
(* Reasons to end                                                          *)

\* kill_after_n_minutes: the time is over.
TimerFires ==
  /\ Alive /\ "timer" \in started /\ cleaner["timer"] = Idle
  /\ CleanUp("timer")
  /\ UNCHANGED <<queue, file, main, started, gui, handling, endedBy, spared>>

\* check_conditions_for_simulation_termination: it looks once, and returns unless
\* enough boxes of a type were delivered by then.
CheckLooks ==
  /\ Alive /\ "check" \in started /\ cleaner["check"] = Idle
  /\ \/ CleanUp("check") /\ UNCHANGED started
     \/ started' = started \ {"check"} /\ UNCHANGED cleaner
  /\ UNCHANGED <<queue, file, main, gui, handling, endedBy, spared>>

\* manufacturing_line_employee: type and place are read from an array of the function
\* that created the thread, 80 ms before that function may return.  An employee who reads
\* them later finds anything there.  A place that its type does not have leads to
\* clean_up, a type that is none to exit(4) at once.
EmployeeMisreads ==
  /\ Alive /\ "employees" \in started
  /\ \/ cleaner["employee"] = Idle /\ CleanUp("employee") /\ UNCHANGED endedBy
     \/ endedBy' = "misread" /\ UNCHANGED cleaner
  /\ UNCHANGED <<queue, file, main, started, gui, handling, spared>>

\* The GUI process exists and is not in clean_up's hands.
GuiLives == gui \in {"forked", "starting", "running"}

\* Ctrl-C: both processes get SIGINT.  The GUI has no handler, the simulation has
\* one from MainSignal on.
Interrupt ==
  /\ Alive /\ cleaner["handler"] = Idle
  /\ gui' = IF GuiLives THEN "ended" ELSE gui
  /\ \/ handling /\ CleanUp("handler") /\ UNCHANGED endedBy
     \/ ~handling /\ endedBy' = "signal" /\ UNCHANGED cleaner
  /\ UNCHANGED <<queue, file, main, started, handling, spared>>

\* patcher_routine, printer_routine: msgrcv on a removed queue fails, exit(3).
ReaderFails(r) ==
  /\ Alive /\ r \in started /\ QueueOf[r] \notin queue
  /\ endedBy' = "reader"
  /\ UNCHANGED <<queue, file, main, started, gui, handling, cleaner, spared>>

-----------------------------------------------------------------------------
(* The GUI process                                                         *)

\* run_gui in the child: execlp replaces the process, or the child cleans up.
GuiExec ==
  /\ gui = "forked" /\ cleaner["child"] = Idle
  /\ \/ gui' = "starting" /\ UNCHANGED cleaner
     \/ CleanUp("child") /\ UNCHANGED gui
  /\ UNCHANGED <<queue, file, main, started, handling, endedBy, spared>>

\* setup_message_queue: without the file or the queue the GUI exits.
GuiSetup ==
  /\ gui = "starting"
  /\ \/ file /\ Ui \in queue /\ gui' = "running"
     \/ ~(file /\ Ui \in queue) /\ gui' = "ended"
  /\ UNCHANGED <<queue, file, main, started, handling, cleaner, endedBy, spared>>

\* The user closes the window.  The simulation goes on.
GuiCloses ==
  /\ gui = "running"
  /\ gui' = "ended"
  /\ UNCHANGED <<queue, file, main, started, handling, cleaner, endedBy, spared>>

GuiStep == GuiExec \/ GuiSetup

-----------------------------------------------------------------------------
(* clean_up                                                                *)

\* The child is a process of its own.
At(c, step) ==
  cleaner[c] = step /\ IF c = "child" THEN gui = "forked" ELSE Alive

Then(c, step) == cleaner' = [cleaner EXCEPT ![c] = step]

\* kill and waitpid, unless gui_pid is 0, as it is before the fork and in the
\* child.  When it is -1, kill reaches every process the user may kill.
KillGui(c) ==
  /\ gui' = IF c # "child" /\ GuiLives THEN "ended" ELSE gui
  /\ spared' = (spared /\ (c = "child" \/ gui # "failed"))

\* MUTANT of CleanKill: the queues are removed before the GUI is killed.
CleanKillLate(c) ==
  /\ At(c, Kill)
  /\ \/ queue # {} /\ queue' = {} /\ UNCHANGED <<gui, cleaner, spared>>
     \/ queue = {} /\ KillGui(c) /\ Then(c, Remove(Ui)) /\ UNCHANGED queue
  /\ UNCHANGED <<file, main, started, handling, endedBy>>

CleanKill(c) ==
  /\ At(c, Kill)
  /\ KillGui(c)
  /\ Then(c, Remove(Ui))
  /\ UNCHANGED <<queue, file, main, started, handling, endedBy>>

\* MUTANT of CleanQueue: a queue that is gone already ends clean_up.
CleanQueueOnce(c) ==
  \E q \in Queues :
    /\ At(c, Remove(q))
    /\ queue' = queue \ {q}
    /\ Then(c, IF q \in queue THEN Remove(q) + 1 ELSE Exit)
    /\ UNCHANGED <<file, main, started, gui, handling, endedBy, spared>>

\* MUTANT of CleanQueue: the queues are removed in the reverse order.
CleanQueueReverse(c) ==
  \E q \in Queues :
    /\ At(c, Remove(q))
    /\ queue' = queue \ {NumQueues + 1 - q}
    /\ Then(c, Remove(q) + 1)
    /\ UNCHANGED <<file, main, started, gui, handling, endedBy, spared>>

\* msgctl(..., IPC_RMID), queue after queue, whether they exist or not.
CleanQueue(c) ==
  \E q \in Queues :
    /\ At(c, Remove(q))
    /\ queue' = queue \ {q}
    /\ Then(c, Remove(q) + 1)
    /\ UNCHANGED <<file, main, started, gui, handling, endedBy, spared>>

CleanFiles(c) ==
  /\ At(c, Files)
  /\ file' = FALSE
  /\ Then(c, Exit)
  /\ UNCHANGED <<queue, main, started, gui, handling, endedBy, spared>>

\* The exit that follows each call of clean_up.
CleanExit(c) ==
  /\ At(c, Exit)
  /\ \/ c = "child" /\ gui' = "ended" /\ UNCHANGED endedBy
     \/ c # "child" /\ endedBy' = c /\ UNCHANGED gui
  /\ UNCHANGED <<queue, file, main, started, handling, cleaner, spared>>

CleanStep(c) == CleanKill(c) \/ CleanQueue(c) \/ CleanFiles(c) \/ CleanExit(c)

-----------------------------------------------------------------------------
Next ==
  \/ MainStep
  \/ TimerFires \/ CheckLooks \/ EmployeeMisreads \/ Interrupt
  \/ \E r \in Readers : ReaderFails(r)
  \/ GuiStep \/ GuiCloses
  \/ \E c \in Cleaners : CleanStep(c)

Spec == Init /\ [][Next]_vars

\* Threads run and the timer's sleep ends.  Nobody has to close the window, to
\* press Ctrl-C, or to wait for a message at the moment its queue is removed.
FairSpec ==
  /\ Spec
  /\ WF_vars(MainStep) /\ WF_vars(TimerFires)
  /\ \A c \in Cleaners : WF_vars(CleanStep(c))

-----------------------------------------------------------------------------
(* Type invariant                                                          *)

TypeOK ==
  /\ queue \subseteq Queues /\ file \in BOOLEAN
  /\ main \in {"load", "touch", "info", "mutexes", "fork", "signal", "join"}
              \cup {Creates[q] : q \in Queues} \cup Threads
  /\ started \subseteq Threads
  /\ gui \in {"none", "failed", "forked", "starting", "running", "ended"}
  /\ handling \in BOOLEAN
  /\ cleaner \in [Cleaners -> Idle..Exit]
  /\ endedBy \in Cleaners \cup {"input", "reader", "signal", "misread", Nobody}
  /\ spared \in BOOLEAN

-----------------------------------------------------------------------------
(* How it ends                                                             *)

\* The GUI outlives the simulation only when an employee misreads its type: no other end
\* leaves a window with nothing to show behind, not a reader of a queue that ends the
\* process in the middle of another thread's clean_up either, nor two threads that clean
\* up at once.  And a window never goes without its queue, so that the GUI's own exit, in
\* read_and_handle_msg_queue when msgrcv fails, has no action here.
OrphanOnlyByMisread ==
  /\ ~Alive /\ gui \in {"starting", "running"} => endedBy = "misread"
  /\ gui = "running" => Ui \in queue

\* A reader that finds its queue removed ends the process, and with it the clean_up
\* that removed the queue, at any point.  At most the printer's queue is left then.
ReaderLeavesOneQueue == endedBy = "reader" => queue \subseteq {QueueOf["printer"]}

\* Who ends the simulation by a clean_up of its own leaves no queue and no file,
\* though other threads, or a child whose exec failed, are in the middle of theirs.
NothingLeftAfterCleanUp == endedBy \in Cleaners => queue = {} /\ ~file

\* The simulation ends when the user's time is over, or before: the main thread
\* gets to start the timer, and no wait of clean_up is for ever.
SimulationEnds == <>~Alive
=============================================================================
