------------------------------ MODULE Patching ------------------------------
(***************************************************************************)
(* From finished products to printed patches: the patcher thread receives  *)
(* products from all manufacturing lines through a message queue, collects *)
(* them per type in an array and sends a patch to the printer thread, which *)
(* prints it and puts it on the printing queue.                            *)
(*                                                                         *)
(* The n-th product of type t is <<t, n>>, numbered from 1 in the order the *)
(* patcher's queue got them; the p-th patch of type t is <<t, p>>.  Ids of  *)
(* the code are unique numbers from one counter.                           *)
(*                                                                         *)
(* The messages to the GUI go through a queue of limited length: a thread   *)
(* that tells it something waits until there is room, for ever when the     *)
(* user has closed the window.  ui is the history of the messages about the *)
(* patches of each type, and Screen(t, p) is what the GUI makes of it.      *)
(*                                                                         *)
(* Left out: the mutexes of the patch arrays, which one patcher never waits *)
(* for, and times.                                                         *)
(***************************************************************************)
EXTENDS Integers, Sequences, FiniteSets, SequencesExt

CONSTANTS
  NumTypes,     \* chocolate types (3 in the code)
  PatchSize,    \* length of the arrays arr_A, arr_B, arr_C (10)
  QueueCap,     \* messages a queue of products or patches holds before msgsnd waits
  UiCap,        \* the same for the queue of the GUI
  LastIndex,    \* indices of the employees who may do the last step of a product
  MaxProducts,  \* BOUND on the products of each type
  Levels        \* BOUND on the levels of the storage area, see `level`

Types == 1..NumTypes

ASSUME SizeAssumption ==
  /\ NumTypes \in Nat \ {0} /\ QueueCap \in Nat \ {0} /\ UiCap \in Nat \ {0}
  /\ LastIndex \in [Types -> SUBSET Nat]
  /\ MaxProducts \in [Types -> Nat]
  /\ PatchSize \in Nat /\ PatchSize > 2
  /\ Levels \subseteq {"low", "between", "high"}

VARIABLES
  sent,      \* products of each type the lines have sent
  patcherQ,  \* message queue of products
  patcher,   \* [at |-> ..., got |-> product]
  counter,   \* type_A_patch, type_B_patch, type_C_patch
  arr,       \* arr_A, arr_B, arr_C: product numbers, 0 initially
  patchId,   \* patch_id_A ...: number of the patch being collected
  printerQ,  \* message queue of patches
  printer,   \* [at |-> ..., got |-> patch]
  printed,   \* patches of each type put on the printing queue, oldest first
  ui,        \* what the GUI was told about the patches of each type, in order
  unread,    \* messages in the queue of the GUI
  window,    \* the window is open and the GUI reads its queue
  level      \* storage_area_box_count against the thresholds

guiVars == <<ui, unread, window>>
vars == <<sent, patcherQ, patcher, counter, arr, patchId, printerQ, printer,
          printed, guiVars, level>>

\* A message in the buffer of a thread: type, number, index of the employee.
Nothing == <<0, 0, 0>>

Init ==
  /\ sent = [t \in Types |-> 0]
  /\ patcherQ = <<>>
  /\ patcher = [at |-> "top", got |-> Nothing]
  /\ counter = [t \in Types |-> 0]
  /\ arr = [t \in Types |-> [i \in 0..PatchSize - 1 |-> 0]]
  /\ patchId = [t \in Types |-> 0]
  /\ printerQ = <<>>
  /\ printer = [at |-> "top", got |-> Nothing]
  /\ printed = [t \in Types |-> <<>>]
  /\ ui = [t \in Types |-> <<>>] /\ unread = 0 /\ window = TRUE
  /\ level \in Levels

\* An employee sends a product whose steps are all done (ManufacturingLine).
ProductArrives(t) ==
  /\ sent[t] < MaxProducts[t]
  /\ Len(patcherQ) < QueueCap
  /\ sent' = [sent EXCEPT ![t] = @ + 1]
  /\ \E index \in LastIndex[t] :
       patcherQ' = Append(patcherQ, <<t, sent[t] + 1, index>>)
  /\ UNCHANGED <<patcher, counter, arr, patchId, printerQ, printer, printed, guiVars, level>>

StorageChanges ==
  /\ level' \in Levels
  /\ UNCHANGED <<sent, patcherQ, patcher, counter, arr, patchId, printerQ, printer,
                 printed, guiVars>>

\* The test at the top of both loops: above the maximum spin down to the minimum.
PassesTop(at, next) ==
  \/ at = "top" /\ level = "high" /\ next = "spin"
  \/ at = "top" /\ level # "high" /\ next = "receive"
  \/ at = "spin" /\ level = "low" /\ next = "receive"

-----------------------------------------------------------------------------
(* patcher_routine                                                         *)

PatcherTop ==
  /\ \E next \in {"spin", "receive"} :
       PassesTop(patcher.at, next) /\ patcher' = [patcher EXCEPT !.at = next]
  /\ UNCHANGED <<sent, patcherQ, counter, arr, patchId, printerQ, printer, printed,
                 guiVars, level>>

\* msgrcv waits for a message.
PatcherReceive ==
  /\ patcher.at = "receive"
  /\ patcherQ # <<>>
  /\ patcher' = [at |-> "collect", got |-> Head(patcherQ)]
  /\ patcherQ' = Tail(patcherQ)
  /\ UNCHANGED <<sent, counter, arr, patchId, printerQ, printer, printed, guiVars, level>>

\* msgsnd waits until the queue of the GUI has room.
Tell(t, m) ==
  /\ unread < UiCap
  /\ ui' = [ui EXCEPT ![t] = Append(@, m)]
  /\ unread' = unread + 1
  /\ UNCHANGED window

\* The messages about a patch: created with nothing to delete, moved with the ids
\* of the products to delete, moved to the printer, and out of it.  The place is
\* a member of enum Location, of which only the order matters.
PatchMsg(what, p, place, index, items) ==
  [what |-> what, patch |-> p, place |-> place, index |-> index, items |-> items]

PATCHING == 1
PRINTER == 2

\* The product goes into the array at index i, and the counter becomes c.  The
\* first product of a patch announces the patch, the last one sends it.
Collect(t, i, c, last) ==
  /\ patcher.at = "collect"
  /\ arr' = [arr EXCEPT ![t][i] = patcher.got[2]]
  /\ counter' = [counter EXCEPT ![t] = c]
  /\ \/ /\ c = 1
        /\ patchId' = [patchId EXCEPT ![t] = @ + 1]
        /\ Tell(t, PatchMsg("created", patchId[t] + 1, PATCHING, 0, {}))
        /\ patcher' = [at |-> "top", got |-> Nothing]
     \/ /\ c = last
        /\ patcher' = [patcher EXCEPT !.at = "send"]
        /\ UNCHANGED <<patchId, guiVars>>
     \/ /\ c \notin {1, last}
        /\ patcher' = [at |-> "top", got |-> Nothing]
        /\ UNCHANGED <<patchId, guiVars>>
  /\ UNCHANGED <<sent, patcherQ, printerQ, printer, printed, level>>

\* MUTANT of NextCount: one product too many before the counter starts again.
NextCountPast(n) == (n + 1) % (PatchSize + 1)

NextCount(n) == (n + 1) % PatchSize

\* MUTANT of PatcherCollect: a patch is sent when the counter equals its size.
PatcherCollectAtSize ==
  LET t == patcher.got[1] IN
  t # 0 /\ Collect(t, counter[t], NextCount(counter[t]), PatchSize)

\* MUTANT of PatcherCollect: the counter does not start again.
PatcherCollectNoWrap ==
  LET t == patcher.got[1] IN
  t # 0 /\ Collect(t, counter[t], counter[t] + 1, PatchSize - 1)

\* Ten products are counted, the patch is sent when the counter is nine.
PatcherCollect ==
  LET t == patcher.got[1] IN
  t # 0 /\ Collect(t, counter[t], NextCount(counter[t]), PatchSize - 1)

Contents(t) == {<<i, arr[t][i]>> : i \in 0..PatchSize - 1}

\* MUTANT of PatcherSend: the printer gets the patch before the UI is told.
PatcherSendFirst ==
  LET t == patcher.got[1] IN
  /\ \/ /\ patcher.at = "send"
        /\ Len(printerQ) < QueueCap
        /\ printerQ' = Append(printerQ, <<t, patchId[t], patcher.got[3]>>)
        /\ patcher' = [patcher EXCEPT !.at = "told"]
        /\ UNCHANGED guiVars
     \/ /\ patcher.at = "told"
        /\ Tell(t, PatchMsg("moved", patchId[t], PATCHING, 3, Contents(t)))
        /\ patcher' = [at |-> "top", got |-> Nothing]
        /\ UNCHANGED printerQ
  /\ UNCHANGED <<sent, patcherQ, counter, arr, patchId, printer, printed, level>>

\* The UI is told with the whole array, then the printer gets the patch.
PatcherSend ==
  LET t == patcher.got[1] IN
  /\ \/ /\ patcher.at = "send"
        /\ Tell(t, PatchMsg("moved", patchId[t], PATCHING, 3, Contents(t)))
        /\ patcher' = [patcher EXCEPT !.at = "told"]
        /\ UNCHANGED printerQ
     \/ /\ patcher.at = "told"
        /\ Len(printerQ) < QueueCap
        /\ printerQ' = Append(printerQ, <<t, patchId[t], patcher.got[3]>>)
        /\ patcher' = [at |-> "top", got |-> Nothing]
        /\ UNCHANGED guiVars
  /\ UNCHANGED <<sent, patcherQ, counter, arr, patchId, printer, printed, level>>

PatcherStep == PatcherTop \/ PatcherReceive \/ PatcherCollect \/ PatcherSend

-----------------------------------------------------------------------------
(* printer_routine                                                         *)

PrinterTop ==
  /\ \E next \in {"spin", "receive"} :
       PassesTop(printer.at, next) /\ printer' = [printer EXCEPT !.at = next]
  /\ UNCHANGED <<sent, patcherQ, patcher, counter, arr, patchId, printerQ, printed,
                 guiVars, level>>

\* MUTANT of PrinterReceive: without a message the buffer is used all the same.
PrinterReceiveStale ==
  /\ printer.at = "receive"
  /\ patchId[1] > 0
  /\ \/ /\ printerQ = <<>>
        /\ printer' = [at |-> "print", got |-> <<1, patchId[1], 7>>]
        /\ UNCHANGED printerQ
     \/ /\ printerQ # <<>>
        /\ printer' = [at |-> "print", got |-> Head(printerQ)]
        /\ printerQ' = Tail(printerQ)
  /\ UNCHANGED <<sent, patcherQ, patcher, counter, arr, patchId, printed, guiVars, level>>

\* msgrcv with IPC_NOWAIT: without a message, back to the top.
PrinterReceive ==
  /\ printer.at = "receive"
  /\ \/ /\ printerQ = <<>>
        /\ printer' = [printer EXCEPT !.at = "top"]
        /\ UNCHANGED printerQ
     \/ /\ printerQ # <<>>
        /\ printer' = [at |-> "print", got |-> Head(printerQ)]
        /\ printerQ' = Tail(printerQ)
  /\ UNCHANGED <<sent, patcherQ, patcher, counter, arr, patchId, printed, guiVars, level>>

\* Tell the GUI with the buffer of the patcher, print, tell the GUI again.
PrinterPrint ==
  LET t == printer.got[1] IN
  /\ \/ /\ printer.at = "print"
        /\ Tell(t, PatchMsg("printing", printer.got[2], PRINTER, printer.got[3], {}))
        /\ printer' = [printer EXCEPT !.at = "ready"]
     \/ /\ printer.at = "ready"
        /\ Tell(t, PatchMsg("printed", printer.got[2], PRINTER, 3, {}))
        /\ printer' = [printer EXCEPT !.at = "enqueue"]
  /\ UNCHANGED <<sent, patcherQ, patcher, counter, arr, patchId, printerQ, printed,
                 level>>

\* enqueueToQueue on the printing queue (Packing models its mutex).
PrinterPut ==
  /\ printer.at = "enqueue"
  /\ printed' = [printed EXCEPT ![printer.got[1]] =
                   Append(@, <<printer.got[1], printer.got[2]>>)]
  /\ printer' = [at |-> "top", got |-> Nothing]
  /\ UNCHANGED <<sent, patcherQ, patcher, counter, arr, patchId, printerQ, guiVars,
                 level>>

PrinterStep == PrinterTop \/ PrinterReceive \/ PrinterPrint \/ PrinterPut

-----------------------------------------------------------------------------
(* The GUI                                                                 *)

\* recursive_timed_update reads its queue until it is empty, in every frame.
GuiReads ==
  /\ window /\ unread # 0
  /\ unread' = unread - 1
  /\ UNCHANGED <<sent, patcherQ, patcher, counter, arr, patchId, printerQ, printer,
                 printed, ui, window, level>>

\* Employees, movers, filling threads and loaders tell the GUI of other objects.
OthersTell ==
  /\ unread < UiCap
  /\ unread' = unread + 1
  /\ UNCHANGED <<sent, patcherQ, patcher, counter, arr, patchId, printerQ, printer,
                 printed, ui, window, level>>

\* The user closes the window; the simulation goes on.
WindowCloses ==
  /\ window /\ window' = FALSE
  /\ UNCHANGED <<sent, patcherQ, patcher, counter, arr, patchId, printerQ, printer,
                 printed, ui, unread, level>>

Absent == [place |-> 0, index |-> 0]

\* MUTANT of Handle: a lower index at the same place is rejected, too.
HandleForward(shown, m) ==
  IF \/ m.what = "created"
     \/ shown # Absent /\ m.place >= shown.place /\ m.index >= shown.index
  THEN [place |-> m.place, index |-> m.index]
  ELSE shown

\* read_and_handle_msg_queue: an object that is not in the table is not moved, and
\* none is moved to an earlier place.  Lower indices are accepted everywhere: the
\* clause against them asks for a place above a screen coordinate, -125, which as an
\* unsigned number, as the places are, no place is above.
Handle(shown, m) ==
  IF m.what = "created" \/ (shown # Absent /\ m.place >= shown.place)
  THEN [place |-> m.place, index |-> m.index]
  ELSE shown

\* What the GUI shows of a patch when it has read all messages about it.
Screen(t, p) ==
  LET after[i \in 0..Len(ui[t])] ==
        IF i = 0 THEN Absent
        ELSE IF ui[t][i].patch = p THEN Handle(after[i - 1], ui[t][i]) ELSE after[i - 1]
  IN  after[Len(ui[t])]

-----------------------------------------------------------------------------
Next ==
  \/ \E t \in Types : ProductArrives(t)
  \/ StorageChanges
  \/ PatcherStep
  \/ PrinterStep
  \/ GuiReads
  \/ OthersTell
  \/ WindowCloses

Spec == Init /\ [][Next]_vars

\* Both threads run for ever, and so does the GUI while its window is open.  The
\* kernel wakes the senders that wait whenever there is room again, so that one
\* does not lose the race for it for ever.
FairSpec ==
  /\ Spec
  /\ WF_vars(PatcherStep) /\ SF_vars(PatcherCollect \/ PatcherSend)
  /\ WF_vars(PrinterStep) /\ SF_vars(PrinterPrint)
  /\ WF_vars(GuiReads)

-----------------------------------------------------------------------------
(* Type invariant                                                          *)

Items == Types \X (Nat \ {0}) \X Nat
Whats == {"created", "moved", "printing", "printed"}

TypeOK ==
  /\ sent \in [Types -> Nat]
  /\ patcherQ \in Seq(Items) /\ Len(patcherQ) <= QueueCap
  /\ patcher \in [at : {"top", "spin", "receive", "collect", "send", "told"},
                  got : Items \cup {Nothing}]
  /\ patcher.at \in {"collect", "send", "told"} => patcher.got \in Items
  /\ counter \in [Types -> 0..PatchSize - 1]
  /\ arr \in [Types -> [0..PatchSize - 1 -> Nat]]
  /\ patchId \in [Types -> Nat]
  /\ printerQ \in Seq(Items) /\ Len(printerQ) <= QueueCap
  /\ printer \in [at : {"top", "spin", "receive", "print", "ready", "enqueue"},
                  got : Items \cup {Nothing}]
  /\ printer.at \in {"print", "ready", "enqueue"} => printer.got \in Items
  /\ printed \in [Types -> Seq(Types \X (Nat \ {0}))]
  /\ ui \in [Types -> Seq([what : Whats, patch : Nat \ {0},
                           place : {PATCHING, PRINTER}, index : Nat,
                           items : SUBSET ((0..PatchSize - 1) \X Nat)])]
  /\ unread \in 0..UiCap /\ window \in BOOLEAN
  /\ level \in Levels

-----------------------------------------------------------------------------
Moves(t) == {k \in DOMAIN ui[t] : ui[t][k].what = "moved"}
Lists(t, n) == {k \in Moves(t) : \E x \in ui[t][k].items : x[2] = n}

\* A patch is announced, filled, printed and put on the printing queue once each,
\* in this order in the messages the UI gets from two threads.
Rank(w) == CASE w = "created" -> 1 [] w = "moved" -> 2
             [] w = "printing" -> 3 [] w = "printed" -> 4
PatchStory ==
  \A t \in Types : \A i, j \in DOMAIN ui[t] :
    LET a == ui[t][i] b == ui[t][j] IN
    /\ i < j /\ a.patch = b.patch => Rank(a.what) < Rank(b.what)
    /\ Rank(a.what) > 1 =>
         \E k \in 1..i - 1 : ui[t][k].patch = a.patch
                             /\ Rank(ui[t][k].what) = Rank(a.what) - 1

\* A patch on the printing queue is shown where it left the printer, when the GUI has
\* read all that two threads told it of the patch, though the last message takes it to
\* a lower index than the one before, which has the index of the employee that finished
\* the last product: no message comes too late or is refused.
PrintedIsShown ==
  \A t \in Types : \A i \in DOMAIN printed[t] :
    Screen(t, printed[t][i][2]) = [place |-> PRINTER, index |-> 3]

\* Patching implements Batches: of each type the n-th patch is printed once, in its
\* turn, and when n * PatchSize - 1 products have been sent.
SentForPatch(n) == n * PatchSize - 1
Patch(t, n) == <<t, n>>
Patches == INSTANCE Batches WITH
  in <- sent, out <- printed, Need <- SentForPatch, Batch <- Patch
PatchesInTurn == Patches!Spec

\* The array is reused while the patch is away and sent one product early; still
\* no product is listed in two patches, and each is listed in one when the patch
\* after it has been sent: the tenth product travels with the next patch.
ListedOnce ==
  \A t \in Types : \A n \in 1..sent[t] :
    /\ Cardinality(Lists(t, n)) <= 1
    /\ \A k \in Moves(t) :
         n < ui[t][k].patch * PatchSize => \E j \in Lists(t, n) : j <= k

\* A patch that was announced and got its products is printed, while the storage
\* area stays below its threshold and the window is open: the messages of all the
\* other threads do not keep the patcher and the printer from telling the GUI.
PatchIsPrinted ==
  <>[](level = "low" /\ window) =>
    \A t \in Types : \A p \in 1..(MaxProducts[t] + 1) \div PatchSize :
      (patchId[t] >= p /\ sent[t] >= p * PatchSize - 1)
        ~> (\E i \in DOMAIN printed[t] : printed[t][i] = Patch(t, p))

\* "the 10 items that were turned into a patch": the list of a patch holds as many
\* products as a patch has, none missing.
PatchIsWhole ==
  \A t \in Types : \A k \in Moves(t) :
    \A x \in ui[t][k].items : x[2] # 0
=============================================================================
