------------------------ MODULE MandelThreadsProofs -------------------------
(***************************************************************************)
(* MandelThreads, for every number of nodes and every size of the image:   *)
(* the callbacks, called by several threads without a lock, never put a    *)
(* value in a wrong place, and no row is lost, neither from memory nor,    *)
(* unless a thread was still copying it, from the file.                    *)
(***************************************************************************)
EXTENDS MandelThreads, TLAPS

-----------------------------------------------------------------------------
(* The inductive invariant *)

\* The line a node has computed, if any, is the line of the row it is entered
\* for, and the thread that takes its result works on that row; a node that asks
\* for data has no line.
OwnRow ==
  \A n \in Node :
    /\ node[n].row \in {node_map[n], NoRow}
    /\ handler[n] \in {"test", "finish", "copy"} => i[n] = node_map[n]
    /\ handler[n] = "copy" => node[n].row # NoRow
    /\ handler[n] \in {"find", "take", "enter"} => node[n].row = NoRow

\* The loops start at 0.
LoopStart ==
  \A n \in Node : /\ handler[n] \in {"none", "quit"} => i[n] = 0
                  /\ handler[n] # "copy" => j[n] = 0

\* A row that is, or is about to be, in node_map never looks unprocessed again.
HandedOut ==
  \A n \in Node : /\ node_map[n] # NoRow => mandel_job[node_map[n]] # "UnProcessed"
                  /\ handler[n] = "enter" => mandel_job[i[n]] # "UnProcessed"

\* What the memcpy has copied so far is in the image.
CopiedSoFar ==
  \A n \in Node : handler[n] = "copy" =>
    \A column \in Column :
      column < j[n] => mandel_image[Place(i[n], column)] = Value(i[n], column)

Complete(image, row) == \A column \in Column : image[Place(row, column)] = Value(row, column)

\* The row is in the image, or some thread is about to have it there.
Covered(row) == Complete(mandel_image, row) \/ row \in BeingCopied

\* Done may be taken back, and it may be set by a thread that copies nothing;
\* being covered is for ever.  These are all the places from which a thread may
\* conclude that a row is covered: the status, the rows nc_is_job_done has passed,
\* an entry whose node has nothing to send, quit.
DoneCovered == \A row \in Row : mandel_job[row] = "Done" => Covered(row)
ScanCovered == \A n \in Node : handler[n] = "done" => \A row \in Row : row < i[n] => Covered(row)
SentCovered == \A n \in Node : node_map[n] # NoRow /\ node[n].row = NoRow => Covered(node_map[n])
QuitCovered == quit => \A row \in Row : Covered(row)

\* nc_run saves and returns only after quit, and returns after all threads.
MainInv ==
  /\ main_pc \in {"save", "join", "returned"} => quit
  /\ main_pc = "returned" => \A n \in Node : handler[n] = "none"

ThreadInv == TypeOK /\ OwnRow /\ LoopStart /\ HandedOut
CoverInv == CopiedSoFar /\ DoneCovered /\ ScanCovered /\ SentCovered /\ QuitCovered

Inv == /\ ThreadInv /\ CoverInv /\ MainInv
       /\ LinesInPlace /\ SavedImageLacksHalfCopiedOnly
-----------------------------------------------------------------------------
(* Places in the image *)

LEMMA RowFacts ==
  /\ Height \in Nat /\ Width \in Nat /\ Width = Height
  /\ NoRow \notin Row /\ 0 \in Row /\ 0 \in Column
  /\ \A row \in Row : row \in Nat /\ row < Height
  /\ \A column \in Column : column \in Nat /\ column < Width
BY SquareAssumption DEF Row, Column, NoRow

LEMMA NextInRange ==
  /\ \A row \in Row : row + 1 < Height => row + 1 \in Row
  /\ \A column \in Column : column + 1 < Width => column + 1 \in Column
BY SquareAssumption DEF Row, Column

\* Rows one after the other do not overlap: a place determines row and column.
LEMMA PlaceInjective ==
  ASSUME NEW r \in Row, NEW s \in Row, NEW c \in Column, NEW d \in Column,
         Place(r, c) = Place(s, d)
  PROVE  r = s /\ c = d
<1>. DEFINE h == Height
<1>1. /\ h \in Nat /\ r \in Nat /\ s \in Nat /\ c \in Nat /\ d \in Nat
      /\ c < h /\ d < h
  BY RowFacts
<1>2. h * r + c = h * s + d
  BY DEF Place
<1>. HIDE DEF h
<1>3. ~ r < s
  <2>. SUFFICES ASSUME r < s PROVE FALSE
    OBVIOUS
  <2>1. h * (r + 1) <= h * s
    BY <1>1
  <2>. QED BY <1>1, <1>2, <2>1
<1>4. ~ s < r
  <2>. SUFFICES ASSUME s < r PROVE FALSE
    OBVIOUS
  <2>1. h * (s + 1) <= h * r
    BY <1>1
  <2>. QED BY <1>1, <1>2, <2>1
<1>5. r = s
  BY <1>1, <1>3, <1>4
<1>. QED BY <1>1, <1>2, <1>5

\* Every value of every row has a place in the vector.
LEMMA PlaceInRange ==
  ASSUME NEW r \in Row, NEW c \in Column
  PROVE  Place(r, c) \in 0 .. Width * Height - 1
<1>. DEFINE h == Height
<1>1. h \in Nat /\ r \in Nat /\ c \in Nat /\ r + 1 <= h /\ c < h /\ Width = h
  BY RowFacts
<1>. HIDE DEF h
<1>2. h * (r + 1) <= h * h /\ h * r \in Nat /\ h * h \in Nat
  BY <1>1
<1>3. h * r + c \in 0 .. h * h - 1
  BY <1>1, <1>2
<1>. QED BY <1>1, <1>3 DEF Place, h
-----------------------------------------------------------------------------
(* The steps *)

\* What the memcpy writes next, and where.
LEMMA CopyStep ==
  ASSUME ThreadInv, NEW n \in Node, CopyValue(n)
  PROVE  /\ i[n] \in Row /\ j[n] \in Column
         /\ mandel_image' = [mandel_image EXCEPT ![Place(i[n], j[n])] = Value(i[n], j[n])]
<1>1. i[n] \in Row /\ j[n] \in Column
  BY DEF ThreadInv, TypeOK
<1>2. node[n].row = i[n]
  BY <1>1, RowFacts DEF ThreadInv, OwnRow, CopyValue
<1>3. i[n] * Height + j[n] = Place(i[n], j[n])
  <2>1. \A x, y \in Nat : x * y = y * x
    OBVIOUS
  <2>. QED BY <1>1, <2>1, RowFacts DEF Place
<1>. QED BY <1>1, <1>2, <1>3 DEF CopyValue

\* Only the memcpy writes to the image.
LEMMA ImageStep ==
  ASSUME Next, NEW n \in Node, nc_handle_node(n), ~CopyValue(n)
  PROVE  mandel_image' = mandel_image
BY DEF nc_handle_node, TestQuit, nc_is_job_done, FindRow, TakeRow, EnterNode, LookupNode,
       TestRow, FinishRow, processorVars

LEMMA TypeStep ==
  ASSUME ThreadInv, [Next]_vars
  PROVE  TypeOK'
<1>. USE DEF ThreadInv, TypeOK, Goto, NextRow, Answer, NeedsData, Result, Ended,
             JobStatus, HandlerPC, processorVars, mainVars, threadVars
<1>1. ASSUME NEW n \in Node, TestQuit(n), raced' \in BOOLEAN PROVE TypeOK'
  BY <1>1, RowFacts DEF TestQuit
<1>2. ASSUME NEW n \in Node, nc_is_job_done(n), raced' \in BOOLEAN PROVE TypeOK'
  <2>1. CASE mandel_job[i[n]] # "Done"
    BY <1>2, <2>1, RowFacts DEF nc_is_job_done
  <2>2. CASE mandel_job[i[n]] = "Done" /\ i[n] + 1 < Height
    BY <1>2, <2>2, NextInRange DEF nc_is_job_done
  <2>3. CASE mandel_job[i[n]] = "Done" /\ ~(i[n] + 1 < Height)
    BY <1>2, <2>3, RowFacts DEF nc_is_job_done
  <2>. QED BY <2>1, <2>2, <2>3
<1>3. ASSUME NEW n \in Node, FindRow(n), raced' \in BOOLEAN PROVE TypeOK'
  BY <1>3, RowFacts, NextInRange DEF FindRow
<1>4. ASSUME NEW n \in Node, TakeRow(n), raced' \in BOOLEAN PROVE TypeOK'
  BY <1>4, RowFacts DEF TakeRow
<1>5. ASSUME NEW n \in Node, EnterNode(n), raced' \in BOOLEAN PROVE TypeOK'
  BY <1>5, RowFacts DEF EnterNode
<1>6. ASSUME NEW n \in Node, LookupNode(n), raced' \in BOOLEAN PROVE TypeOK'
  BY <1>6, RowFacts DEF LookupNode
<1>7. ASSUME NEW n \in Node, TestRow(n), raced' \in BOOLEAN PROVE TypeOK'
  <2>1. CASE mandel_job[i[n]] = "Processing"
    BY <1>7, <2>1, RowFacts DEF TestRow
  <2>2. CASE mandel_job[i[n]] # "Processing"
    BY <1>7, <2>2, RowFacts DEF TestRow
  <2>. QED BY <2>1, <2>2
<1>8. ASSUME NEW n \in Node, FinishRow(n), raced' \in BOOLEAN PROVE TypeOK'
  <2>1. CASE node[n].row # NoRow
    BY <1>8, <2>1, RowFacts DEF FinishRow
  <2>2. CASE node[n].row = NoRow
    BY <1>8, <2>2, RowFacts DEF FinishRow
  <2>. QED BY <2>1, <2>2
<1>9. ASSUME NEW n \in Node, CopyValue(n), raced' \in BOOLEAN PROVE TypeOK'
  <2>1. mandel_image' \in Image
    <3>1. /\ i[n] \in Row /\ j[n] \in Column
          /\ mandel_image' = [mandel_image EXCEPT ![Place(i[n], j[n])] = Value(i[n], j[n])]
      BY <1>9, CopyStep
    <3>2. Value(i[n], j[n]) \in Row \X Column
      BY <3>1 DEF Value
    <3>. QED BY <3>1, <3>2 DEF Image
  <2>2. /\ j' \in [Node -> Column]
        /\ node' \in [Node -> {NeedsData, Ended} \cup {Result(row) : row \in Row \cup {NoRow}}]
        /\ handler' \in [Node -> HandlerPC] /\ i' \in [Node -> Row]
    BY <1>9, RowFacts, NextInRange DEF CopyValue, Copied
  <2>. QED BY <1>9, <2>1, <2>2 DEF CopyValue
<1>10. ASSUME nc_run, raced' \in BOOLEAN PROVE TypeOK'
  <2>1. CASE CheckQuit
    BY <1>10, <2>1 DEF CheckQuit
  <2>2. ASSUME NEW n \in Node, nc_accept(n) PROVE TypeOK'
    BY <1>10, <2>2 DEF nc_accept
  <2>3. CASE nc_save_data
    BY <1>10, <2>3 DEF nc_save_data, BeingCopied
  <2>4. CASE JoinClients
    BY <1>10, <2>4 DEF JoinClients
  <2>. QED BY <1>10, <2>1, <2>2, <2>3, <2>4 DEF nc_run
<1>11. Next => raced' \in BOOLEAN
  BY DEF Next, MeetInNodeMap
<1>12. CASE UNCHANGED vars
  BY <1>12 DEF vars
<1>. QED BY <1>1, <1>2, <1>3, <1>4, <1>5, <1>6, <1>7, <1>8, <1>9, <1>10, <1>11, <1>12
         DEF Next, nc_handle_node
\* OwnRow, LoopStart and HandedOut, for every thread m, when thread n takes a step.
LEMMA OwnStep ==
  ASSUME ThreadInv, Next
  PROVE  OwnRow' /\ LoopStart' /\ HandedOut'
<1>. USE DEF ThreadInv, TypeOK, OwnRow, LoopStart, HandedOut, Goto, NextRow, Answer,
             NeedsData, Result, Ended, HandlerPC, processorVars, mainVars, threadVars
<1>1. ASSUME NEW n \in Node, TestQuit(n) PROVE OwnRow' /\ LoopStart' /\ HandedOut'
  BY <1>1, RowFacts DEF TestQuit
<1>2. ASSUME NEW n \in Node, nc_is_job_done(n) PROVE OwnRow' /\ LoopStart' /\ HandedOut'
  BY <1>2, RowFacts DEF nc_is_job_done
<1>3. ASSUME NEW n \in Node, FindRow(n) PROVE OwnRow' /\ LoopStart' /\ HandedOut'
  BY <1>3, RowFacts DEF FindRow
<1>4. ASSUME NEW n \in Node, TakeRow(n) PROVE OwnRow' /\ LoopStart' /\ HandedOut'
  BY <1>4, RowFacts DEF TakeRow
<1>5. ASSUME NEW n \in Node, EnterNode(n) PROVE OwnRow' /\ LoopStart' /\ HandedOut'
  BY <1>5, RowFacts DEF EnterNode
<1>6. ASSUME NEW n \in Node, LookupNode(n) PROVE OwnRow' /\ LoopStart' /\ HandedOut'
  BY <1>6, RowFacts DEF LookupNode
<1>7. ASSUME NEW n \in Node, TestRow(n) PROVE OwnRow' /\ LoopStart' /\ HandedOut'
  BY <1>7, RowFacts DEF TestRow
<1>8. ASSUME NEW n \in Node, FinishRow(n) PROVE OwnRow' /\ LoopStart' /\ HandedOut'
  <2>0. mandel_job' = [mandel_job EXCEPT ![i[n]] = "Done"] /\ UNCHANGED node_map
    BY <1>8 DEF FinishRow
  <2>1. CASE node[n].row # NoRow
    <3>1. OwnRow' /\ LoopStart'
      BY <1>8, <2>1, RowFacts DEF FinishRow
    <3>2. HandedOut'
      BY <1>8, <2>0, <2>1, RowFacts DEF FinishRow
    <3>. QED BY <3>1, <3>2
  <2>2. CASE node[n].row = NoRow
    <3>1. OwnRow' /\ LoopStart'
      BY <1>8, <2>2, RowFacts DEF FinishRow
    <3>2. HandedOut'
      BY <1>8, <2>0, <2>2, RowFacts DEF FinishRow
    <3>. QED BY <3>1, <3>2
  <2>. QED BY <2>1, <2>2
<1>9. ASSUME NEW n \in Node, CopyValue(n) PROVE OwnRow' /\ LoopStart' /\ HandedOut'
  BY <1>9, RowFacts DEF CopyValue, Copied
<1>10. CASE nc_run
  BY <1>10 DEF nc_run, CheckQuit, nc_accept, nc_save_data, JoinClients
<1>. QED BY <1>1, <1>2, <1>3, <1>4, <1>5, <1>6, <1>7, <1>8, <1>9, <1>10
         DEF Next, nc_handle_node

LEMMA ThreadStep ==
  ASSUME ThreadInv, [Next]_vars
  PROVE  ThreadInv'
<1>1. CASE Next
  BY <1>1, TypeStep, OwnStep DEF ThreadInv
<1>2. CASE UNCHANGED vars
  BY <1>2 DEF vars, ThreadInv, TypeOK, OwnRow, LoopStart, HandedOut,
              processorVars, mainVars, threadVars
<1>. QED BY <1>1, <1>2

-----------------------------------------------------------------------------
(* Covered rows stay covered *)

\* Values that are in place stay there.
LEMMA ImageGrows ==
  ASSUME ThreadInv, Next, NEW r \in Row, NEW c \in Column,
         mandel_image[Place(r, c)] = Value(r, c)
  PROVE  mandel_image'[Place(r, c)] = Value(r, c)
<1>1. ASSUME NEW n \in Node, CopyValue(n)
      PROVE  mandel_image'[Place(r, c)] = Value(r, c)
  <2>1. /\ i[n] \in Row /\ j[n] \in Column
        /\ mandel_image' = [mandel_image EXCEPT ![Place(i[n], j[n])] = Value(i[n], j[n])]
    BY <1>1, CopyStep
  <2>2. Place(r, c) \in DOMAIN mandel_image
    BY PlaceInRange DEF ThreadInv, TypeOK, Image
  <2>3. CASE Place(r, c) = Place(i[n], j[n])
    BY <2>1, <2>2, <2>3, PlaceInjective
  <2>4. CASE Place(r, c) # Place(i[n], j[n])
    BY <2>1, <2>2, <2>4
  <2>. QED BY <2>3, <2>4
<1>2. CASE mandel_image' = mandel_image
  BY <1>2
<1>3. nc_run => mandel_image' = mandel_image
  BY DEF nc_run, CheckQuit, nc_accept, nc_save_data, JoinClients, processorVars
<1>. QED BY <1>1, <1>2, <1>3, ImageStep DEF Next

LEMMA LinesStep ==
  ASSUME ThreadInv, LinesInPlace, Next
  PROVE  LinesInPlace'
<1>. SUFFICES ASSUME NEW r \in Row, NEW c \in Column
              PROVE  mandel_image'[Place(r, c)] \in {Blank, Value(r, c)}
  BY DEF LinesInPlace, Place
<1>1. mandel_image[Place(r, c)] \in {Blank, Value(r, c)}
  BY DEF LinesInPlace
<1>2. ASSUME NEW n \in Node, CopyValue(n)
      PROVE  mandel_image'[Place(r, c)] \in {Blank, Value(r, c)}
  <2>1. /\ i[n] \in Row /\ j[n] \in Column
        /\ mandel_image' = [mandel_image EXCEPT ![Place(i[n], j[n])] = Value(i[n], j[n])]
    BY <1>2, CopyStep
  <2>2. Place(r, c) \in DOMAIN mandel_image
    BY PlaceInRange DEF ThreadInv, TypeOK, Image
  <2>3. CASE Place(r, c) = Place(i[n], j[n])
    BY <2>1, <2>2, <2>3, PlaceInjective
  <2>4. CASE Place(r, c) # Place(i[n], j[n])
    BY <1>1, <2>1, <2>2, <2>4
  <2>. QED BY <2>3, <2>4
<1>3. CASE mandel_image' = mandel_image
  BY <1>1, <1>3
<1>4. nc_run => mandel_image' = mandel_image
  BY DEF nc_run, CheckQuit, nc_accept, nc_save_data, JoinClients, processorVars
<1>. QED BY <1>2, <1>3, <1>4, ImageStep DEF Next
\* What a step does to a thread that is copying after it, and before it.
LEMMA CopyingBefore ==
  ASSUME ThreadInv, Next, NEW m \in Node, handler'[m] = "copy"
  PROVE  /\ i'[m] = i[m]
         /\ \/ j'[m] = 0
            \/ handler[m] = "copy" /\ j'[m] = j[m]
            \/ CopyValue(m) /\ j'[m] = j[m] + 1
<1>. USE DEF ThreadInv, TypeOK, Goto, NextRow, Answer, HandlerPC, processorVars, mainVars, threadVars
<1>1. ASSUME NEW n \in Node, nc_handle_node(n), ~CopyValue(n), ~FinishRow(n)
      PROVE  /\ handler'[m] = "copy" => handler[m] = "copy" /\ i'[m] = i[m] /\ j'[m] = j[m]
  BY <1>1 DEF nc_handle_node, TestQuit, nc_is_job_done, FindRow, TakeRow, EnterNode,
              LookupNode, TestRow
<1>2. ASSUME NEW n \in Node, FinishRow(n)
      PROVE  /\ i'[m] = i[m]
             /\ \/ j'[m] = 0
                \/ handler[m] = "copy" /\ j'[m] = j[m]
  BY <1>2 DEF FinishRow, LoopStart
<1>3. ASSUME NEW n \in Node, CopyValue(n)
      PROVE  /\ i'[m] = i[m]
             /\ \/ handler[m] = "copy" /\ j'[m] = j[m]
                \/ CopyValue(m) /\ j'[m] = j[m] + 1
  BY <1>3 DEF CopyValue, Copied
<1>4. CASE nc_run
  BY <1>4 DEF nc_run, CheckQuit, nc_accept, nc_save_data, JoinClients
<1>. QED BY <1>1, <1>2, <1>3, <1>4 DEF Next

LEMMA CopyingAfter ==
  ASSUME ThreadInv, Next, NEW m \in Node, handler[m] = "copy"
  PROVE  \/ handler'[m] = "copy" /\ i'[m] = i[m]
         \/ CopyValue(m) /\ ~(j[m] + 1 < Width)
<1>. USE DEF ThreadInv, TypeOK, Goto, NextRow, Answer, HandlerPC, processorVars, mainVars, threadVars
<1>1. ASSUME NEW n \in Node, nc_handle_node(n), ~CopyValue(n)
      PROVE  handler'[m] = "copy" /\ i'[m] = i[m]
  BY <1>1 DEF nc_handle_node, TestQuit, nc_is_job_done, FindRow, TakeRow, EnterNode,
              LookupNode, TestRow, FinishRow
<1>2. ASSUME NEW n \in Node, CopyValue(n)
      PROVE  \/ handler'[m] = "copy" /\ i'[m] = i[m]
             \/ CopyValue(m) /\ ~(j[m] + 1 < Width)
  BY <1>2 DEF CopyValue, Copied
<1>3. CASE nc_run
  BY <1>3 DEF nc_run, CheckQuit, nc_accept, nc_save_data, JoinClients
<1>. QED BY <1>1, <1>2, <1>3 DEF Next

\* The value CopyValue writes is in the image after it.
LEMMA CopiedNow ==
  ASSUME ThreadInv, NEW m \in Node, CopyValue(m)
  PROVE  mandel_image'[Place(i[m], j[m])] = Value(i[m], j[m])
<1>1. /\ i[m] \in Row /\ j[m] \in Column
      /\ mandel_image' = [mandel_image EXCEPT ![Place(i[m], j[m])] = Value(i[m], j[m])]
  BY CopyStep
<1>2. Place(i[m], j[m]) \in DOMAIN mandel_image
  BY <1>1, PlaceInRange DEF ThreadInv, TypeOK, Image
<1>. QED BY <1>1, <1>2

LEMMA CopiedStep ==
  ASSUME ThreadInv, CopiedSoFar, Next
  PROVE  CopiedSoFar'
<1>. SUFFICES ASSUME NEW m \in Node, handler'[m] = "copy",
                     NEW c \in Column, c < j'[m]
              PROVE  mandel_image'[Place(i'[m], c)] = Value(i'[m], c)
  BY DEF CopiedSoFar, Place
<1>1. i'[m] = i[m] /\ i[m] \in Row /\ j[m] \in Nat /\ c \in Nat
  BY CopyingBefore, RowFacts DEF ThreadInv, TypeOK
<1>2. CASE handler[m] = "copy" /\ j'[m] = j[m]
  BY <1>1, <1>2, ImageGrows DEF CopiedSoFar
<1>3. CASE CopyValue(m) /\ j'[m] = j[m] + 1
  <2>1. CASE c = j[m]
    BY <1>1, <1>3, <2>1, CopiedNow
  <2>2. CASE c < j[m]
    BY <1>1, <1>3, <2>2, ImageGrows DEF CopiedSoFar, CopyValue
  <2>. QED BY <1>1, <1>3, <2>1, <2>2
<1>4. j'[m] # 0
  BY <1>1
<1>. QED BY <1>2, <1>3, <1>4, CopyingBefore

\* Whatever the threads do, a row that is covered stays covered.
LEMMA CoveredStable ==
  ASSUME ThreadInv, CopiedSoFar, Next, NEW row \in Row, Covered(row)
  PROVE  Covered(row)'
<1>1. CASE Complete(mandel_image, row)
  BY <1>1, ImageGrows DEF Covered, Complete, Place
<1>2. ASSUME NEW m \in Node, handler[m] = "copy", i[m] = row
      PROVE  Covered(row)'
  <2>1. CASE handler'[m] = "copy" /\ i'[m] = i[m]
    BY <1>2, <2>1 DEF Covered, BeingCopied
  <2>2. CASE CopyValue(m) /\ ~(j[m] + 1 < Width)
    <3>1. ASSUME NEW c \in Column
          PROVE  mandel_image'[Place(row, c)] = Value(row, c)
      <4>1. c = j[m] \/ c < j[m]
        BY <2>2, RowFacts DEF ThreadInv, TypeOK
      <4>. QED BY <1>2, <2>2, <4>1, CopiedNow, ImageGrows DEF CopiedSoFar
    <3>. QED BY <3>1 DEF Covered, Complete, Place
  <2>. QED BY <1>2, <2>1, <2>2, CopyingAfter
<1>. QED BY <1>1, <1>2 DEF Covered, BeingCopied
-----------------------------------------------------------------------------
(* Nobody takes a row for covered that is not *)

LEMMA DoneStep ==
  ASSUME ThreadInv, CoverInv, Next
  PROVE  DoneCovered'
<1>. SUFFICES ASSUME NEW row \in Row, mandel_job'[row] = "Done"
              PROVE  Covered(row)'
  BY DEF DoneCovered
<1>. USE DEF ThreadInv, TypeOK, CoverInv, Goto, Answer, processorVars, mainVars, threadVars
<1>1. CASE Covered(row)
  BY <1>1, CoveredStable
<1>2. ASSUME NEW n \in Node, FinishRow(n)
      PROVE  Covered(row)'
  <2>1. CASE mandel_job[row] = "Done"
    BY <1>1, <2>1 DEF DoneCovered
  <2>2. CASE row = i[n] /\ node[n].row # NoRow
    BY <1>2, <2>2 DEF FinishRow, Covered, BeingCopied
  <2>3. CASE row = i[n] /\ node[n].row = NoRow
    BY <1>1, <1>2, <2>3, RowFacts DEF FinishRow, OwnRow, SentCovered
  <2>. QED BY <1>2, <2>1, <2>2, <2>3 DEF FinishRow
<1>3. ASSUME NEW n \in Node, nc_handle_node(n), ~FinishRow(n)
      PROVE  mandel_job[row] = "Done"
  BY <1>3 DEF nc_handle_node, TestQuit, nc_is_job_done, FindRow, TakeRow, EnterNode,
              LookupNode, TestRow, CopyValue
<1>4. nc_run => mandel_job' = mandel_job
  BY DEF nc_run, CheckQuit, nc_accept, nc_save_data, JoinClients
<1>. QED BY <1>1, <1>2, <1>3, <1>4 DEF Next, DoneCovered

\* A thread that has gone round the loop of nc_is_job_done has seen every row done,
\* each at its own time.
LEMMA ScanEnds ==
  ASSUME ThreadInv, CoverInv, NEW n \in Node, handler[n] = "done",
         mandel_job[i[n]] = "Done", ~(i[n] + 1 < Height)
  PROVE  \A row \in Row : Covered(row)
<1>. TAKE row \in Row
<1>1. row = i[n] \/ row < i[n]
  BY RowFacts DEF ThreadInv, TypeOK
<1>. QED BY <1>1 DEF CoverInv, ScanCovered, DoneCovered

LEMMA ScanStep ==
  ASSUME ThreadInv, CoverInv, Next
  PROVE  ScanCovered'
<1>. SUFFICES ASSUME NEW m \in Node, handler'[m] = "done", NEW row \in Row, row < i'[m]
              PROVE  Covered(row)
  BY CoveredStable DEF ScanCovered, CoverInv
<1>. USE DEF ThreadInv, TypeOK, LoopStart, Goto, NextRow, Answer, processorVars, mainVars, threadVars
<1>1. CASE handler[m] = "done" /\ i'[m] = i[m]
  BY <1>1 DEF CoverInv, ScanCovered
<1>2. CASE handler[m] = "done" /\ mandel_job[i[m]] = "Done" /\ i'[m] = i[m] + 1
  <2>1. row = i[m] \/ row < i[m]
    BY <1>2, RowFacts
  <2>. QED BY <1>2, <2>1 DEF CoverInv, ScanCovered, DoneCovered
<1>3. i'[m] # 0
  BY RowFacts
<1>4. ASSUME NEW n \in Node, nc_handle_node(n), ~nc_is_job_done(n)
      PROVE  handler[m] = "done" /\ i'[m] = i[m]
  BY <1>3, <1>4 DEF nc_handle_node, TestQuit, FindRow, TakeRow, EnterNode,
                    LookupNode, TestRow, FinishRow, CopyValue, Copied
<1>5. ASSUME NEW n \in Node, nc_is_job_done(n)
      PROVE  /\ handler[m] = "done"
             /\ \/ i'[m] = i[m]
                \/ mandel_job[i[m]] = "Done" /\ i'[m] = i[m] + 1
  <2>1. CASE n # m
    BY <1>5, <2>1 DEF nc_is_job_done
  <2>2. CASE n = m /\ mandel_job[i[m]] = "Done" /\ i[m] + 1 < Height
    BY <1>5, <2>2 DEF nc_is_job_done
  <2>3. CASE n = m /\ ~(mandel_job[i[m]] = "Done" /\ i[m] + 1 < Height)
    BY <1>3, <1>5, <2>3 DEF nc_is_job_done
  <2>. QED BY <2>1, <2>2, <2>3
<1>6. nc_run => handler[m] = "done" /\ i'[m] = i[m]
  BY DEF nc_run, CheckQuit, nc_accept, nc_save_data, JoinClients
<1>. QED BY <1>1, <1>2, <1>4, <1>5, <1>6 DEF Next

\* A node with an entry has nothing (more) to send only when its row is covered,
\* whichever way its thread went: the row was found done, or it was being copied.
LEMMA SentStep ==
  ASSUME ThreadInv, CoverInv, Next
  PROVE  SentCovered'
<1>. SUFFICES ASSUME NEW m \in Node, node_map'[m] # NoRow, node'[m].row = NoRow
              PROVE  node_map'[m] \in Row /\ node_map'[m] = node_map[m] /\ Covered(node_map[m])
  BY CoveredStable DEF SentCovered, CoverInv
<1>. USE DEF ThreadInv, TypeOK, Goto, NextRow, Answer, processorVars, mainVars, threadVars
<1>1. node_map'[m] = node_map[m]
  <2>1. ASSUME NEW n \in Node, EnterNode(n) PROVE node_map'[m] = node_map[m]
    BY <2>1, RowFacts DEF EnterNode, Result
  <2>2. ASSUME NEW n \in Node, nc_handle_node(n), ~EnterNode(n) PROVE node_map'[m] = node_map[m]
    BY <2>2 DEF nc_handle_node, TestQuit, nc_is_job_done, FindRow, TakeRow, LookupNode,
                TestRow, FinishRow, CopyValue
  <2>3. nc_run => node_map'[m] = node_map[m]
    BY DEF nc_run, CheckQuit, nc_accept, nc_save_data, JoinClients
  <2>. QED BY <2>1, <2>2, <2>3 DEF Next
<1>2. node_map[m] \in Row
  BY <1>1
<1>3. CASE node[m].row = NoRow
  BY <1>1, <1>2, <1>3 DEF CoverInv, SentCovered
<1>4. CASE node[m].row # NoRow /\ nc_handle_node(m)
  <2>1. TestQuit(m) => Covered(node_map[m])
    BY <1>2, <1>4 DEF TestQuit, CoverInv, QuitCovered
  <2>2. nc_is_job_done(m) => Covered(node_map[m])
    BY <1>2, <1>4, ScanEnds DEF nc_is_job_done
  <2>3. ~FindRow(m) /\ ~TakeRow(m) /\ ~EnterNode(m)
    BY <1>4 DEF FindRow, TakeRow, EnterNode, OwnRow
  <2>4. LookupNode(m) => FALSE
    BY <1>1, <1>4 DEF LookupNode
  <2>5. TestRow(m) => Covered(node_map[m])
    <3>1. SUFFICES ASSUME TestRow(m) PROVE mandel_job[node_map[m]] = "Done"
      BY <1>2 DEF CoverInv, DoneCovered
    <3>2. mandel_job[node_map[m]] # "Processing"
      BY <1>4, <3>1 DEF TestRow, OwnRow
    <3>. QED BY <1>1, <1>2, <3>2 DEF HandedOut, JobStatus
  <2>6. ~FinishRow(m)
    BY <1>4 DEF FinishRow
  <2>7. CopyValue(m) => Covered(node_map[m])
    BY DEF CopyValue, OwnRow, Covered, BeingCopied
  <2>. QED BY <1>1, <1>2, <1>4, <2>1, <2>2, <2>3, <2>4, <2>5, <2>6, <2>7 DEF nc_handle_node
<1>5. ASSUME NEW n \in Node, n # m, nc_handle_node(n)
      PROVE  node'[m] = node[m]
  BY <1>5 DEF nc_handle_node, TestQuit, nc_is_job_done, FindRow, TakeRow, EnterNode,
              LookupNode, TestRow, FinishRow, CopyValue, Copied
<1>6. nc_run => node'[m] = node[m]
  BY DEF nc_run, CheckQuit, nc_accept, nc_save_data, JoinClients
<1>. QED BY <1>3, <1>4, <1>5, <1>6 DEF Next

LEMMA QuitStep ==
  ASSUME ThreadInv, CoverInv, Next
  PROVE  QuitCovered'
<1>. SUFFICES ASSUME quit', NEW row \in Row PROVE Covered(row)
  BY CoveredStable DEF QuitCovered, CoverInv
<1>1. CASE quit
  BY <1>1 DEF CoverInv, QuitCovered
<1>2. ASSUME NEW n \in Node, nc_is_job_done(n), ~quit
      PROVE  Covered(row)
  BY <1>2, ScanEnds DEF nc_is_job_done
<1>3. ASSUME NEW n \in Node, nc_handle_node(n), ~nc_is_job_done(n)
      PROVE  quit
  BY <1>3 DEF nc_handle_node, TestQuit, FindRow, TakeRow, EnterNode, LookupNode,
              TestRow, FinishRow, CopyValue
<1>4. nc_run => quit
  BY DEF nc_run, CheckQuit, nc_accept, nc_save_data, JoinClients
<1>. QED BY <1>1, <1>2, <1>3, <1>4 DEF Next

LEMMA CoverStep ==
  ASSUME ThreadInv, CoverInv, Next
  PROVE  CoverInv'
BY CopiedStep, DoneStep, ScanStep, SentStep, QuitStep DEF CoverInv

-----------------------------------------------------------------------------
(* nc_run *)

LEMMA MainStep ==
  ASSUME ThreadInv, MainInv, Next
  PROVE  MainInv'
<1>. USE DEF ThreadInv, TypeOK, MainInv, Goto, processorVars, mainVars, threadVars
<1>1. ASSUME NEW n \in Node, nc_handle_node(n)
      PROVE  main_pc' = main_pc /\ (quit => quit') /\ handler[n] # "none"
  BY <1>1 DEF nc_handle_node, TestQuit, nc_is_job_done, FindRow, TakeRow, EnterNode,
              LookupNode, TestRow, FinishRow, CopyValue
<1>2. CASE CheckQuit \/ nc_save_data \/ JoinClients
  BY <1>2 DEF CheckQuit, nc_save_data, JoinClients
<1>3. ASSUME NEW n \in Node, nc_accept(n) PROVE MainInv'
  BY <1>3 DEF nc_accept
<1>. QED BY <1>1, <1>2, <1>3 DEF Next, nc_run

\* What nc_save_data writes lacks rows that are being copied only: quit is set,
\* so every row is covered.
LEMMA SaveStep ==
  ASSUME CoverInv, MainInv, SavedImageLacksHalfCopiedOnly, Next
  PROVE  SavedImageLacksHalfCopiedOnly'
<1>1. CASE nc_save_data
  <2>1. quit
    BY <1>1 DEF nc_save_data, MainInv
  <2>2. \A row \in Row \ BeingCopied : Complete(mandel_image, row)
    BY <2>1 DEF CoverInv, QuitCovered, Covered
  <2>. QED BY <1>1, <2>2 DEF nc_save_data, SavedImageLacksHalfCopiedOnly, Complete, Place
<1>2. CASE saved' = saved /\ half_copied' = half_copied
  BY <1>2 DEF SavedImageLacksHalfCopiedOnly, Place
<1>3. ASSUME NEW n \in Node, nc_handle_node(n)
      PROVE  saved' = saved /\ half_copied' = half_copied
  BY <1>3 DEF nc_handle_node, TestQuit, nc_is_job_done, FindRow, TakeRow, EnterNode,
              LookupNode, TestRow, FinishRow, CopyValue, mainVars
<1>4. nc_run /\ ~nc_save_data => saved' = saved /\ half_copied' = half_copied
  BY DEF nc_run, CheckQuit, nc_accept, JoinClients
<1>. QED BY <1>1, <1>2, <1>3, <1>4 DEF Next

-----------------------------------------------------------------------------
(* The theorems *)

LEMMA InvInit == Init => Inv
<1>. SUFFICES ASSUME Init PROVE Inv
  OBVIOUS
<1>1. ThreadInv
  BY RowFacts DEF Init, ThreadInv, TypeOK, OwnRow, LoopStart, HandedOut, Image, JobStatus,
                  HandlerPC, NeedsData
<1>2. CoverInv
  BY RowFacts DEF Init, CoverInv, CopiedSoFar, DoneCovered, ScanCovered, SentCovered, QuitCovered
<1>3. MainInv /\ SavedImageLacksHalfCopiedOnly
  BY DEF Init, MainInv, SavedImageLacksHalfCopiedOnly
<1>4. LinesInPlace
  BY PlaceInRange DEF Init, LinesInPlace
<1>. QED BY <1>1, <1>2, <1>3, <1>4 DEF Inv

LEMMA InvStep == Inv /\ [Next]_vars => Inv'
<1>. SUFFICES ASSUME Inv, [Next]_vars PROVE Inv'
  OBVIOUS
<1>1. CASE Next
  BY <1>1, ThreadStep, CoverStep, MainStep, LinesStep, SaveStep DEF Inv
<1>2. CASE UNCHANGED vars
  BY <1>2, ThreadStep
     DEF vars, processorVars, mainVars, threadVars, Inv, CoverInv, CopiedSoFar, DoneCovered,
         ScanCovered, SentCovered, QuitCovered, Covered, Complete, BeingCopied, MainInv,
         LinesInPlace, SavedImageLacksHalfCopiedOnly, Place
<1>. QED BY <1>1, <1>2

\* The inductive invariant holds in every reachable state.
THEOREM InvHolds == Spec => []Inv
BY InvInit, InvStep, PTL DEF Spec

\* The statuses, the image, the loop variables of all threads keep their types:
\* no index leaves the image or the vector of statuses.
THEOREM TypeCorrect == Spec => []TypeOK
<1>1. Inv => TypeOK
  BY DEF Inv, ThreadInv
<1>. QED BY <1>1, InvHolds, PTL

\* However the threads overtake each other, no value is ever in a place of the
\* image it was not computed for.
THEOREM ValuesInPlace == Spec => []LinesInPlace
<1>1. Inv => LinesInPlace
  BY DEF Inv
<1>. QED BY <1>1, InvHolds, PTL

\* When nc_run has joined its threads every row is in memory, although a slow
\* thread may have set rows back from Done and nc_is_job_done may have seen the
\* rows done at different times.
THEOREM ImageComplete == Spec => []ImageCompleteAfterJoin
<1>1. Inv => ImageCompleteAfterJoin
  <2>. SUFFICES ASSUME Inv, main_pc = "returned", NEW row \in Row
                PROVE  Complete(mandel_image, row)
    BY DEF ImageCompleteAfterJoin, Complete
  <2>1. Covered(row)
    BY DEF Inv, MainInv, CoverInv, QuitCovered
  <2>2. BeingCopied = {}
    BY DEF Inv, MainInv, BeingCopied
  <2>. QED BY <2>1, <2>2 DEF Covered
<1>. QED BY <1>1, InvHolds, PTL

\* The file lacks values of rows only that a thread was copying when nc_run wrote it.
THEOREM SavedImageAlmostComplete == Spec => []SavedImageLacksHalfCopiedOnly
<1>1. Inv => SavedImageLacksHalfCopiedOnly
  BY DEF Inv
<1>. QED BY <1>1, InvHolds, PTL
=============================================================================
