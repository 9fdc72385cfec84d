# A TLA+ model of the chocolate factory simulation

The program in `src/` simulates a chocolate factory. One process of about fifty
threads (`src/src/cli`) makes products, collects them into patches, prints the
patches, packs two of them into a carton box, stores the boxes and loads them onto
trucks. A second process (`src/src/ui`) shows what happens; it is told through a
System V message queue. This directory models the threads, their queues and
mutexes, the start and the end of the simulation, the GUI's table of objects and how
it moves them over the screen. TLC checks the models on small instances; TLAPS proves
the most important properties for every instance, among them that the stages of the
factory implement abstract specifications of what they promise.

Line numbers without a file are those of `src/src/cli/main.c`.

## 1. The system

```
generator -> piles -> employees -> [patcher queue] -> patcher -> [printer queue] -> printer
   -> printing queue -> movers -> containers -> filling threads -> filling queues
   -> porters -> storage area -> loaders -> trucks            everybody -> [ui queue] -> GUI
```

Brackets are System V message queues; the others are linked lists with a mutex and a
count. Everything from the filling queues back to the generator suspends itself while
`storage_area_box_count` is above a threshold.

| component | state | operations | talks to |
|---|---|---|---|
| generator and lines, 418-671 | piles, a mutex per slot, a progress string per product | generate, find, try, check, mark, send, clear | patcher and UI queues |
| patcher, 673-755 | counter, array and patch id per type | receive, collect, announce, send | patcher, printer, UI queues |
| printer, 757-802 | the message in its buffer | poll, print, enqueue | printer and UI queues, printing queue |
| movers, 1314-1358 (3 threads) | the patch they carry | lock, pick, put, unlock | printing queue, containers |
| filling threads, 1578-1671 (3) | the patches they took | test the count, take two, pack | containers, filling queues |
| porters, 1530-1576 (2) | the box they carry | lock, count, pick, put | filling queues, storage queues |
| loaders, 1360-1509 (2) | box, truck index | choose truck, take, stow, count, ship, exchange trucks | storage queues, trucks, delivered counts |
| suspension | `storage_area_box_count` and two thresholds | `++` by porters, `= 0` by loaders, busy waiting by others | all producers |
| start and end, 178-416, 840-985, 1673-1757, `utils.h` 59-220 | input, queues, files, GUI process, handler | read, set up, fork, start, time out, clean up, exit | the GUI, all threads |
| GUI messages, `ui.c` 118-288 | objects and trucks on the screen | create, move, delete | hash table |
| hash table, `hash_table.h` | buckets with overflow chains, a count | insert, search, delete | - |
| animation, `ui.c` 98-116, 270-288, `ui_helper.h` | coordinates of objects and trucks | appear, a step per frame | hash table |

What is hard about it:

* *Threads.* The build has no `-O` flag, so every access to a shared integer is a
  load or a store, and `x++` is both. Counts are read without the mutex that protects
  them (1588), the mutex to take is chosen through a variable another thread changes
  (1370), a mutex is released in the middle of a test and its increment (1377).
* *Two loaders, one truck.* A loader may work on a truck while it holds the mutex of
  another, unlock a mutex that is not its own, and meet the other one in the same linked list.
* *Locks that stay locked.* A dequeue from an empty queue returns without unlocking
  (1036-1040). So it matters that nobody ever dequeues from an empty queue.
* *Order.* Boxes and patches pass through several threads at each stage.
* *Ending.* `clean_up` can run in several threads, and removing a queue makes the
  thread that reads it exit the whole process.
* *Waiting.* Busy waiting on a count that only some of the others change, message
  queues that block their senders, a truck mutex two loaders compete for.
* *A table that is never emptied.* Only patches are deleted, so ids come round to buckets
  that are in use, where deletion, drawing and moving are all different code.

What makes each component correct, and the property that says so, is in section 3.

## 2. Modules

| module | models | bounds |
|---|---|---|
| `Shipping` | filling queues, porters, storage area, loaders, trucks, the storage count | `MaxBoxes`, `MaxDelivered` |
| `ManufacturingLine` | generator and employees of one type | `NumIds`, `Levels` |
| `Batches` | what a stage promises: the n-th batch of a type goes out once, in its turn, after what it is made of | none |
| `BoxFifo` | what the way to the trucks promises: per type one queue | none |
| `Patching` | patcher and printer, and the full queue of the GUI | `MaxProducts`, `Levels` |
| `Packing` | printing queue, movers, containers, filling threads | `MaxPatches`, `Levels` |
| `Shutdown` | input, queues, mutexes, fork, the creation of the threads, GUI process, every way to end | one SIGINT |
| `UiTable` | the GUI's messages and hash table | `MaxId`, `MaxProducts`, `Waiting` |
| `Animation` | extends `UiTable`: where objects and trucks are, frame by frame | those of `UiTable` |
| `ShippingProofs` | theorems about `Shipping`, which implements `BoxFifo` | none |
| `ShippingBoxProofs` | theorems about `Shipping`: a box is in one place, the count is never ahead | none |
| `ShippingTruckProofs` | theorem about `Shipping`: the first truck leaves full | none |
| `PackingProofs` | theorems about `Packing`, which implements `Batches` | none |
| `PatchingProofs` | theorems about `Patching`, which implements `Batches`, and what it tells the GUI | none |
| `ManufacturingLineProofs` | theorems about `ManufacturingLine` | none |
| `ShutdownProofs` | theorems about `Shutdown` | none |
| `AnimationProofs` | theorems about `UiTable` and `Animation` | none |
| `MC...` | values of the constants for TLC | |

### How state and actions correspond to the code

*Variables* keep the names of the code where it has one (`storage_area_box_count`,
`G_Trucks_Order`). `switched` and `torn` of `Shipping` are history: whether the trucks changed,
and whose list two loaders changed at a time. Variables that the code has once per type or per truck
are functions. A mutex is the thread that holds it or `None`. A queue and the count
next to it change together under the queue's mutex, so the count is the length of the
queue; a thread that reads the count without the mutex reads the length in a step of
its own. Thread locals that matter are functions of the thread (`hand`, `reg`, `save`).

*Actions* are the stretches of code between two accesses to something another thread
changes without a lock. `storage_area_box_count++` is a load and a store
(`PorterLoadCount`, `PorterStoreCount`), `G_numberOfChocolateBoxs_Truck_A++` likewise
(`LoaderLoadCount`, `LoaderStoreCount`). A dequeue or an enqueue that holds the mutex of
all it touches is one action. The enqueue on a truck is two, its lock (`LoaderEnqueue`) and
the rest (`LoaderAppend`), because the mutex does not keep the other loader out; what two
threads in it make of the list is `Linked`. What nothing ever reads is left out: `G_round` and the
number of boxes on each truck.

*Messages to the GUI* are sent with `msgsnd`, which blocks when the queue is full. While the
window is open the GUI empties its queue in every frame. When it is closed, every sender
comes to wait for good, with the mutexes it holds: that is a thread that takes no further
step, which every `Spec` allows at any point. `Patching` models the queue and the closing of the
window; the liveness properties of `Shipping` and `Packing` assume an open window
(section 3, Fairness).

*Data.* A product, patch or box is its type and its number; the ids of the code come
from one counter under a mutex (`generate_uniq_id`) and serve no other purpose.

*The level of the storage area.* Outside of `Shipping` other threads change
`storage_area_box_count` at any time and to anything, so those modules keep only its
range: at most the minimum (`low`), `between`, equal to the maximum (`full`, where
`insertToContainers` already stops: 1320 has `>=` where the others have `>`), above it
(`high`). `StorageChanges` chooses a new range at any time.

*Comments marked MUTANT* precede variants of a definition with a plausible bug. No
next-state relation uses them; they show that the properties notice such a bug.

### Choices worth knowing

* `ManufacturingLine` has the order of the steps in two parameters. For type C the
  condition of line 638 (`index > 2 && progress[3] == '1'`) amounts to a total order,
  stricter than the assignment's "Steps 4 and 5 can happen in any order".
* The generator fills slot `PILESIZE`, too (459). That slot has the mutex of slot 0 of
  the next line, which `MutexOf` says, and no employee ever looks at it.
* `Packing` models what the code does with an empty queue: `FillerTake` leaves the
  mutex locked, `MoverPick` yields a payload without a type. `NoUnderflow` says that
  neither happens.
* In `Patching` the messages of all other threads to the GUI are `OthersTell`: they fill the
  queue that the patcher and the printer need. `Screen` runs the GUI's handler over the
  messages about a patch, so that properties can say what is shown when all were read.
* In `Shutdown` an employee may misread its type and place (`EmployeeMisreads`): the array
  they are in belongs to the function that created the thread (342, 359, 375). A place that
  its type does not have leads to `clean_up` (574-591), a type that is none to `exit(4)`
  without it (616-618). The creation of a queue may fail: for the first one that is noticed,
  for the others not (127 and 135 of `utils.h` test the key); reading what the queues are like
  may fail later, with all of them there (142-182). The results of
  `pthread_mutex_init` and `pthread_create` are compared with -1, which they never are,
  so those calls have one outcome.
* In `Animation` a frame moves the first entry of a bucket once more for every entry of its
  chain (`MovedTimes`), and never the chain. `n` moves of a step are written as one move of
  `n` steps; `TowardComposes` in `AnimationProofs` proves that they are the same. The message about a truck carries index 0, so
  the GUI always moves the third truck; a box appears in location
  `CONTAINER_A + 1 - type` (`ui.c` 161). Both are kept as the code has them.
* In `UiTable` and `Patching` the GUI rejects only moves to an earlier location. A move to a
  lower index is accepted everywhere: the clause against it compares the location, an
  enum and so an unsigned number, with a screen coordinate, -125 (`ui.c` 239), and no location is above
  that. So the printer's last message about a patch, which names index 3, is accepted whatever
  index the message before had.
* In `UiTable` a freed entry that is still linked ends the run: what the GUI reads from
  it afterwards is undefined. `Waiting` keeps patches from waiting for a box so long
  that ids come round once, to show that deletion goes wrong with young patches.

## 3. What the runs check

| run | instance | properties |
|---|---|---|
| `ShippingSafety` | 2 porters, 2 loaders, 2 types, 2 trucks, quota 1; 2 boxes and 1 | `TypeOK`, `BoxInOnePlace`, `InOrder`, `FirstTruckExclusive`, `CountIsOfBoxes`, `PipelineIsFifo`, `FirstTruckLeavesFull` |
| `ShippingProgress` | 2 porters, 2 loaders, 1 type, 2 boxes, maximum threshold 1, fair | `PackedBoxIsStored`, `TakenBoxIsStowed` |
| `ManufacturingLine` | 1 line, 4 steps (2 in order, 2 in any order), 1 slot, 3 ids | `TypeOK`, `StepsInOrder`, `SentOnceComplete`, `ProductStays`, `LeavesComplete` |
| `Patching` | 2 types, patches of 3, queues of 1, fair | `TypeOK`, `PatchStory`, `PrintedIsShown`, `ListedOnce`, `PatchesInTurn`, `PatchIsPrinted` |
| `Packing` | 2 movers, 2 types, 4 patches and 2, fair | `TypeOK`, `NoUnderflow`, `OnlyLastMoveIsLate`, `BoxesInTurn`, `PairIsPacked` |
| `Shutdown` | the program as it is, fair | `TypeOK`, `OrphanOnlyByMisread`, `ReaderLeavesOneQueue`, `NothingLeftAfterCleanUp`, `SimulationEnds` |
| `Animation` | 4 buckets, 5 objects, the places of one type on a coarse screen, frames | `TypeOK`, `CountOfBuckets`, `ExactWithoutCollision`, `EverythingArrives` |

What they show. No interleaving of porters and loaders doubles or reorders a box before the
trucks, and none loses one there: from the filling threads to the loaders each type is one
queue. Until the trucks change for the first time the loaders exclude each other, and the
first truck goes with its quota of each type although what is on it is counted without
a mutex. After that two loaders may work on one truck, and boxes may be lost
(`TruckQueueViolation`); `BoxInOnePlace` allows that only on a truck whose list two loaders
changed at a time (`torn`). `storage_area_box_count` loses increments and resets to its races, but
it never counts a box that was not carried off or is not about to be. While the window is open,
boxes reach the storage area and the trucks, with the exception of what a stray lock keeps.

A product gets each step once and in order and leaves its slot once, complete, although
it is looked for without its mutex. Patches are announced, sent, printed and queued once
and in order, and no product is listed in two of them although the array is reused; a
patch on the printing queue is shown where it left the printer when the GUI has read the
messages of both threads. A box consists of the next two patches of its type; nobody
dequeues from an empty queue, so no lock of this stage stays locked; a mover tells the GUI of a patch
after it put it down, and only the last one in the container can be one the GUI has not
heard of. When the simulation ends, a GUI stays behind in one case only, that of an employee
that misread its type (`exit(4)`), which may leave queues as well; a `clean_up` that reaches its
`exit` leaves nothing, and one that a reader's `exit(3)` cuts off leaves the printer's
queue at most. In the GUI, the table is exact as long as no id collides with that of a
patch and its count is that of the buckets in use, so that an insertion never exits; what
is first in its bucket arrives at the spot of the last message about it, whatever the step and
whichever way it goes.

### Abstract specifications

`Batches` says what a stage of the factory promises without naming a thread: of each type
the n-th batch goes out once, in its turn, when enough things have come in. `Patching`
implements it (`PatchesInTurn`: `in` is `sent`, `out` is `printed`, and the n-th patch needs
`n * PatchSize - 1` products, one less than it should), and so does `Packing`
(`BoxesInTurn`: `in` is `printed`, `out` is `fillQ`, two patches per box). The output of one
is the input of the next. `BoxFifo` is one queue per type from the filling threads to the
loaders; `Shipping` implements it (`PipelineIsFifo`) with two linked lists and the hands of
the porters: `waiting` is the storage queue, then what a porter carries, then the filling
queue (`Pipeline`).

### Violations

| run | property | what happens |
|---|---|---|
| `TruckQueueViolation` | `TruckQueueProtected` | `G_Trucks_Order` is read for the lock and again after the wait (1370, 1371). A loader that waited for one truck works on the next, unlocks that one and leaves its own locked; both loaders come to be in `enqueueToQueue` of one truck, where a box can be lost. |
| `OverfullTruckViolation` | `FullTruckLeaves` | Both loaders pass the quota test before either counts (1372, 1395); the count exceeds the quota, `==` at 1489 never holds again, the truck never leaves. |
| `DrainedStorageViolation` | `DrainedStorageResumes` | The storage count is not decremented when boxes are loaded. With a quota above the maximum threshold the storage area is empty and the lines stay suspended. |
| `PatchOfNineViolation` | `PatchIsWhole` | The patch is sent when the counter is 9, before the tenth product is stored (745). |
| `UiTableViolation` | `DeletesOneObject` | `ht_delete` advances `curr` before it saves `prev`: a deleted entry stays in its chain and the rest of the chain is lost (`hash_table.h` 357-358). |

The two violations of liveness, `OverfullTruckViolation` and `DrainedStorageViolation`, happen
with an open window and under fair threads.

### Why the bounds are enough

Races of porters and of loaders are between two threads; the code has two of each. Two
types and two trucks are the least with which a type can be waited for while another is
full, and a truck's turn can pass to another and come back. Two boxes of a type are
needed to see an order. Two loaders at one truck's list need a second trip, that is three boxes of one
type, which `TruckQueueViolation` has; with two types that would be four or more, so that in
`ShippingSafety` `torn` stays empty, and what may happen then is covered by the theorem
`BoxAlwaysInOnePlace`. `ShippingSafety` keeps the maximum threshold out of reach (fillers never wait), which gives
every interleaving of the others; `ShippingProgress` and `DrainedStorageViolation` suspend
them. `MaxDelivered` only lets the delivered counts saturate: no action reads them, and
`ShippingSafety` leaves them out of the state by a view, which names every variable that a guard or a
property reads. One slot makes all employees contend for it; with three ids the slot is refilled
while the product before is on its way, and a third time. Patches of three have a first, a
middle and a last product like patches of ten; queues of one message make every sender
wait, that of the GUI (`UiCap` 1) as well. The employee who finishes a product names its index
in the message, 7 or 5 here (`LastOfLines`): both are above the 3 of the patcher's message. Two movers are enough to overtake each other; the third of the code adds no new pair.
In `Animation` the fifth
object collides with the first; the places lie to each other as those of one type in the
program, from the line on the left of where objects appear to the road of the trucks, in units of about a
hundred pixels. A step (14, vertically 7) takes an object past most of its destinations,
so that every way ends with a step that is cut; some ways take two.
Symmetry (porters, loaders) is used in `ShippingSafety` and `TruckQueueViolation`, which check no
liveness.

The runs of `Shipping` do not check for deadlock: the bounded boxes run out, and the
locked mutex of a finding stops everybody. `Shutdown` stops by design. In the other modules
the environment can always take a step (`StorageChanges`, `Frame`), so that TLC's test for
deadlocks says nothing of their threads; what does is `PairIsPacked` for the nested locks of
`Packing`, and `PatchIsPrinted` for the full queues.

### Fairness

Threads of the kernel's scheduler run: weak fairness of the steps of each thread. A
loader waits for the mutex of a truck that is taken again and again by the other
loader; each sleeps 50 ms after it has unlocked, so the waiting one gets it: strong
fairness of `LoaderLock` and `LoaderEnqueue` (`ThreadFairness`). `Shutdown` assumes that the
timer's sleep ends; it does not assume that anybody presses Ctrl-C, closes the window or
receives a message at a certain time. `PairIsPacked` and `PatchIsPrinted` assume that the
storage area stays below its thresholds from some time on.

The fairness of `Shipping` and of `Packing` assumes that the *window stays open*: with a closed
one a thread waits in `msgsnd` for ever, a porter with the filling mutex (1543), a loader
with a box in its hand (1381) or the mutex of a truck (1402), a mover with the printing mutex
(1353), a filling thread with a box that is not packed yet (1601). `PatchIsPrinted` says it itself, because `Patching`
has the window as a variable. `PairIsPacked` needs one assumption more, `FillingMutexesReturn`:
a filling thread waits for the mutex of its filling queue (`FillerWait`), which a porter keeps
while it waits for the mutex of the storage queue, and that one a loader may have locked for good
(1036-1040). In `Packing` the porters are `PorterReleases`, without fairness; strong fairness of `FillerPack` says
that a filling thread gets the mutex when porters release it again and again, as they do
with a second's sleep after each time.

The queue of the GUI is shared by all threads. `GuiReads` is weakly fair, since each frame
reads the queue until it is empty; the patcher and the printer get strong fairness of the
steps that send to it, because the kernel wakes waiting senders whenever a message is read.
`Frame` of `Animation` is weakly fair: each frame asks GLUT for the next one before it does
anything else (`ui.c` 274).

The employees of a line have no liveness property: they only try the mutex of a slot, and
one that always finds it taken may fail for ever. That this has probability 0 is not
something TLC can show.

## 4. What is proved

`ShippingProofs`, for any numbers of types, trucks, porters, loaders and boxes, any quotas
and thresholds, from the named assumptions of `Shipping` (types and trucks exist, porters
and loaders are different threads, quotas are positive):

* `TypeCorrect`: `Spec => []TypeOK`. The parts of `TypeOK` that are needed beyond types are
  in `LocalsTyped`: a loader that waits for a mutex has chosen an existing truck.
* `StorageInOrder`: `Spec => []InOrder`. `InOrder` is not inductive: it says nothing of who
  holds which mutex. `OrderInv` adds that the holder of the filling mutex of a type is the
  porter at work on it (`FillMutexHeld`), that this porter found a box and has one in its
  hand at the end only (`PorterCarries`), and that no box has a number not yet given out
  (`Numbered`). The proof has a lemma for each action that moves a box, and rests on
  lemmas about appending to and taking from increasing sequences.
* `FirstTripExclusive`: `Spec => []FirstTruckExclusive`, by `FirstTruckInv`: while the
  order of the trucks has not changed, every loader waits for and holds the mutex of truck
  1, and one that is about to take a box has seen it. That the trucks never return to the
  state before the first change is `FirstTruckOnce`. After the change the property is false.
* `ShippingIsFifo`: `Spec => PipelineIsFifo`, the refinement of `BoxFifo`. By `OrderInv` at
  most one porter has a box of a type in its hand, so that the three parts of `Pipeline`
  are three sequences. A pick takes the head of the last part into the empty middle
  (`TakeIntoHand`), a put takes it to the end of the first (`PutFromHand`); both leave the
  concatenation as it is. A filling appends to it, a loader's take removes its head.
* `OverfullTruckStays` and `DrainedForGood`: what two of the violation runs reach cannot be
  undone. `Spec => [][\A t \in Types : Overfull(t) => Overfull(t)' /\ UNCHANGED
  turnVars]_vars`: once the count of a type is above its quota, no loader
  has already found the counts equal to the quotas and none holds an older count to
  store, no step changes the trucks. `Spec => [][Drained => Drained']_vars`: when all lines
  are suspended by the storage count, the queues before and in the storage area are empty and
  the truck lacks a box of each type, the count is never changed again, because only a full
  share zeroes it. Both are stable without any further invariant than `TypeOK`; that the
  states are reachable is what `OverfullTruckViolation` and `DrainedStorageViolation` show.

`ShippingBoxProofs`, from the same assumptions:

* `BoxAlwaysInOnePlace`: `Spec => []BoxInOnePlace`: one place, or none if some truck's list was
  torn. `BoxInv` says it for every box, and that
  a box not yet filled is nowhere (`Placed`), of four sets: the positions of the box in the
  filling and in the storage queue of its type, the hands that hold it and its positions on
  trucks. Nothing is assumed about mutexes on the loaders' side: a loader that takes a box
  removes it in the same step, so that two loaders in the same section take different boxes,
  and the zeroed payload of a dequeue from an empty queue is no box. On a torn list an
  enqueue keeps a beginning of what was there, with or without the new box (`Linked`), so that
  boxes leave and none is doubled. `LoaderCarries` is what
  keeps a loader from dropping a box by taking another one; `OrderInv` does it for porters.
* `CountNeverAhead`: `Spec => []CountIsOfBoxes`. The porters read and write the count under
  different mutexes and the loaders clear it under none, so nothing can be said of its
  value but a bound. `CountInv` bounds, besides the count, what each porter has read and
  not yet written: a porter reads and writes before it takes its box (1539, 1541), so that
  what it writes counts at most the boxes carried off and those of porters about to pick.

`ShippingTruckProofs`, from the same assumptions, for any number of loaders:

* `FirstTruckFull`: `Spec => FirstTruckLeavesFull`: the order of the trucks changes for the
  first time only when truck 1 has its quota of every type. The loaders count what they
  stowed outside of every mutex, so that a count may be lost and the truck overfilled; the
  induction is that it is never ahead. `FirstLoadInv` says so, as long as the order has not
  changed: the count of a type, and what a loader has read of it, leave room for the boxes
  of the loaders between stowing and counting (`CountedIsLoaded`), a loader carries a box of
  the type it counts (`CarriesItsType`), and what it found equal to its quota is on the truck
  (`FoundFull`). It rests on `FirstTruckInv`, which keeps the list of truck 1 whole, and on
  `OrderInv` and `BoxInv`, by which what a loader takes is a box of the type it asked for. Of later trucks
  nothing is said: two loaders may then reset each other's counts and lose boxes.

`PackingProofs`, for any numbers of types, movers and patches, from `ThreadsAssumption` of
`Packing` (`None` is not a thread):

* `TypeCorrect`: `Spec => []TypeOK`.
* `BoxesOfTwo`: `Spec => []BoxOfTwoPatches`, and `NeverEmpty`: `Spec => []NoUnderflow`. Both
  need the numbers of all patches on the way, and follow from `PackingInv`. `FillerHolds`:
  what a filler has taken and what is in its container are the next patches of its type, and
  one past its test has two of them, for it alone takes from the container. `MoverHolds`: the
  holder of the printing mutex is the one mover inside, and the patch in its hand is the next
  one (`Contained(t) + 1`). `InPrintingOrder`: every other patch that was printed and is not
  in the container waits in the printing queue, in order, so that the first of the queue is
  the next of its type (`HeadIsNext`). Each action disturbs one half of `PackingInv`, except
  `MoverPut`, which moves a patch from one to the other; the frame lemmas give the other half.
* `LastMoveIsLate`: `Spec => []OnlyLastMoveIsLate`. The mover that has not told the GUI yet
  still holds the printing mutex, so no other mover has put a patch behind its own.
* `PackingImplementsBatches`: `Spec => BoxesInTurn`. A box is made of the next two patches by
  `FillerHolds`; both were printed because they were in the container (`InPrintingOrder`).

`ManufacturingLineProofs`, for any numbers of lines, steps, slots and ids, from the
assumptions of `ManufacturingLine`:

* `TypeCorrect`, `StepsAlwaysInOrder`, `AlwaysSentOnceComplete`, `ProductAlwaysStays`,
  `AlwaysLeavesComplete`: the five properties of the run. They follow from one inductive
  invariant, `IndInv`. `LockInv` ties the label of a thread to the mutex it holds, through
  `MutexOf`, which gives slot `PileSize` of a line the mutex of slot 0 of the next one: two
  slots share a mutex, so "one mutex, one slot" has to be argued from the fact that employees
  never reach that slot. `ProductInv` relates the progress of the product in a slot to what
  was told and sent: ids are given once (`IdsInv`), what was sent is complete (`SentInv`), a
  step is marked when and only when it was told, except by the employee in between
  (`ProgressInv`, `WorkInv`, `ToldInv`), and the steps were told in order (`OrderInv`).
  `StepsInOrder` alone is not inductive: it says nothing about the employee who checked
  the condition and has not marked its step yet.

`PatchingProofs`, for any numbers of types and products, any size of a patch above 2 and
any capacities of the queues, from `SizeAssumption` of `Patching`:

* `TypeCorrect`: `Spec => []TypeOK`. It is not inductive by itself: the number of a patch that is
  sent must be one that was announced, which is a fact about counters and hands.
* `PatchingImplementsBatches`: `Spec => PatchesInTurn`, the refinement of `Batches`. The
  refinement says nothing of what is on the way, so the induction needs, of each type,
  `PatcherInv`: the products in the patcher's queue are the next ones after those received,
  in order (`InTurn`); a patch is sent exactly when the counter stands at `PatchSize - 1`;
  and every patch released to the printer had its `n * PatchSize - 1` products sent
  before; and `PrinterInv`: the patches in the printer's queue are the next ones
  released, and the one at work is the next to be put on the printing queue.

  Then, on top of that invariant:
* `StoryInOrder`: `Spec => []PatchStory`. `StoryInv` counts, of each type, how many patches
  the GUI was told of with each of the four kinds of message (`Heard`), and says that those
  of a kind came in the order of the patches, and those of a patch in the order of the kinds
  (`Story`). A message goes on with the story (`StoryGoesOn`) because no kind is ahead of the
  one before it, which is the order of the counters of `PatchingInv`.
* `PrintedShown`: `Spec => []PrintedIsShown`. `Screen` is recursive in the number of messages;
  the induction is over the steps, of which each tells at most one message more (`TellsPlaced`,
  `FollowsOn`). `Shows` says what the messages told so far call for, of place and index. It needs
  `StoryInv`: since the messages of a patch come in the order of the kinds, none names an
  earlier place than the one shown, and the GUI rejects nothing else.
* `ListedOnlyOnce`: `Spec => []ListedOnce`. `ArrayInv` says which products the array of a type
  names: the slots below the counter those of the patch being filled, the others those of the
  patch before. The list of patch `p` then has the products from `(p - 1) * PatchSize` to
  `p * PatchSize - 1` (`Whole`); the lists of two patches have none in common.
* `ListsAreWhole`: `Spec => [](\A t \in Types : \A k \in Moves(t) : Whole(ui[t][k]))`, what the
  code lists in place of what `PatchIsWhole` says: each list is one product late, and no
  product but number 0, which does not exist, is the one missing.

`ShutdownProofs`. The instance of the run is the program as it is, so the theorems add no
larger one; they say why a GUI stays in one case only where the run says that it does:

* `TypeCorrect`, `OrphanedOnlyByMisread`, `ReaderLeavesLittle`, `CleanUpIsComplete`: the four
  invariants of the run. Each is a fact about the moment of an exit, and none is inductive.
  `CleanUpInv` says what each run of `clean_up` has behind it (`GoneBehind`): no queue below
  its step, no GUI once it is past the kill, which needs that the main thread creates
  queues and the GUI before there is anybody else to clean up, or cleans up itself
  (`MainAlone`, `MainCleaning`). `GoneByCleanUp` is the converse: once all queues were created, which
  `MainInfo` finds out, a queue is gone because some run removed it, which is behind it
  still. So a reader can only exit
  in the middle of a clean-up that has killed the GUI. `ChildOrGui`: the
  forked process either becomes the GUI or, when exec fails, cleans up and exits. An
  employee's `exit(4)` is the one end that needs no `clean_up`, and the invariant excepts it by name.

`AnimationProofs`, for any numbers of buckets and objects, any places of at least one
column, any lengths of steps, from `TableAssumption` and `SpaceAssumption`, which says nothing of where the
locations lie to each other or to where objects appear (in the program the lines begin to the
left of that, at -1200 and -1000):

* `AnimationTypeCorrect`: `AnimationSpec => []TypeOK`, with `OnScreen` for everything that is
  drawn: right of some left end and left of some right end, of a location or of where objects
  appear. A step never goes past its destination (`Toward`), and every destination is inside its
  location (`SpotInside`, which needs that a location has a column).
* `CountIsRight`: `[]CountOfBuckets`. `TableInv` has the shape of the table: an id is in the
  bucket of its hash, at most once, the first one of a bucket is the earliest of
  its chain (`Ordered`), and a bucket without an entry has no chain. `Insertion` and `Deletion` say what
  the two operations make of such a table, and `Deletion` covers the two ways to delete from a
  chain, of which one loses entries: the shape is kept by that as well.
* `ExactTable`: `[]ExactWithoutCollision`. `ExactInv` has the hypothesis of the property
  in it: a collision does not go away, since objects keep their ids and kinds, so that a
  state without one was reached through states without one. `DeletesAlone` is the step.
* `BehindAnyEntry`: `[]BehindEntryStays`: what collides with an earlier object that is in the
  table is where it appeared. `FirstIsEarliest` is the reason: no frame looks at it. Products
  are never asked to be deleted, and so stay before what collides with them, unless
  `ht_delete` loses them with a chain (`UiTableViolation`).
* `FrameApproaches`: `AnimationSpec => [][FramesApproach]_allVars`: no frame takes an object
  or a truck farther from where it belongs, though it may take many steps. This is the part
  of `EverythingArrives` that is not liveness.

Every invariant that a run checks is a theorem, and so are the refinements and the action
properties. Only model-checked: the violations, which are about traces, and the liveness
properties (out of TLAPS's reach: they need ENABLED).

## 5. What is not modelled

* The contents of the input file: its values are constants, and `MainLoad` has the two
  endings of reading it.
* What objects look like: `shapes.h`, the drawing of locations, the window and the rolling
  gates only call OpenGL. `current_items` of a location, which nothing reads.
* What the GUI does after it has read a freed entry, which is undefined.
* Debug output (`printInfo`, `disply...`), which is never started, and `child.c` and
  `ui_test_feeder.c`, which are not built.
* A `malloc` that fails, a `kill` or a removal that the kernel refuses, a second SIGINT, a
  removed queue id 0 that belongs to another program.
* Behaviour that is modelled and has no property: `kill(-1, SIGKILL)` after a failed fork
  (`spared`), the termination check that looks once, the queues that a SIGINT before the
  handler is registered or an `exit(4)` leaves, a reset of the storage count that a porter undoes.

## 6. Plan

Done, in this order, since the later stages hold the races: `Shipping` with its proofs,
`ManufacturingLine`, `Patching`, `Packing` with its proofs, `Shutdown`, `UiTable`; then the
abstract specifications `Batches` and `BoxFifo` with the refinements, the full queue of the
GUI, the start of the program, `Animation`, and the proofs about `Patching` and
`ManufacturingLine`; the proofs of `BoxInOnePlace`, `PatchStory`, `ListedOnce`; then the proofs about the storage count, what the
GUI shows, the two final states of `Shipping`, `Shutdown`, `UiTable` and `Animation`; last the
two loaders in the list of one truck, the first truck, and the waits for a closed window.

Left: a composition of `Patching`, `Packing` and `Shipping` in which the storage count of one
suspends the others. The interfaces are `printed` and `fillQ`.
