---------------------------- MODULE MandelThreads -----------------------------
(***************************************************************************)
(* The callbacks of MandelServerProcessor, which NCServer calls from       *)
(* several threads without a lock, one statement at a time.  MandelJob     *)
(* takes each callback for one step.                                       *)
(*                                                                         *)
(* Each node has one exchange at a time, and so one client thread at most; *)
(* nc_run accepts, saves and joins.  A node asks for data, computes and    *)
(* sends its result, again and again.  Nodes do not time out here;         *)
(* MandelServer takes nc_node_timeout apart.                               *)
(*                                                                         *)
(* The image is one vector, row after row, as in the code.  Its values and *)
(* the statuses are bytes and words, which a build reads and writes whole; *)
(* node_map is not, and the model ends where two threads meet in it.       *)
(***************************************************************************)
EXTENDS Naturals

CONSTANTS Node, Width, Height

\* MandelData(), the only image the program makes, is 2048 x 2048.
ASSUME SquareAssumption == Height \in Nat \ {0} /\ Width = Height

Row == 0 .. Height - 1
Column == 0 .. Width - 1
NoRow == Height

VARIABLES mandel_job, mandel_image, node_map,   \* the processor object
          raced,        \* two threads have met in node_map
          quit,
          main_pc,
          saved,        \* {} or the image in the file
          half_copied,  \* the rows half copied when the file was written
          node,         \* what each node will ask or send next
          handler,      \* where the client thread serving each node is
          i, j          \* its loop variables: a row and a column

processorVars == <<mandel_job, mandel_image, node_map>>
mainVars == <<main_pc, saved, half_copied>>
threadVars == <<node, handler, i, j>>
vars == <<processorVars, raced, quit, mainVars, threadVars>>

JobStatus == {"UnProcessed", "Processing", "Done"}
HandlerPC == {"none", "quit", "done", "find", "take", "enter",
              "lookup", "test", "finish", "copy"}

\* A value is the place in the image it was computed for.
Value(row, column) == <<row, column>>
Blank == <<>>
Image == [0 .. Width * Height - 1 -> {Blank} \cup (Row \X Column)]

NeedsData == [kind |-> "need", row |-> NoRow]
Result(row) == [kind |-> "result", row |-> row]   \* of NoRow: the empty vector
Ended == [kind |-> "ended", row |-> NoRow]

Init ==
  /\ mandel_job = [row \in Row |-> "UnProcessed"]
  /\ mandel_image = [p \in 0 .. Width * Height - 1 |-> Blank]
  /\ node_map = [n \in Node |-> NoRow]
  /\ raced = FALSE
  /\ quit = FALSE
  /\ main_pc = "loop" /\ saved = {} /\ half_copied = {}
  /\ node = [n \in Node |-> NeedsData]
  /\ handler = [n \in Node |-> "none"]
  /\ i = [n \in Node |-> 0] /\ j = [n \in Node |-> 0]

-----------------------------------------------------------------------------
(* nc_handle_node, as far as the processor is concerned *)

Goto(n, pc) == handler' = [handler EXCEPT ![n] = pc]
NextRow(n) == i' = [i EXCEPT ![n] = @ + 1]

\* The thread of n answers and ends; n goes on with next.
Answer(n, next) ==
  /\ node' = [node EXCEPT ![n] = next]
  /\ handler' = [handler EXCEPT ![n] = "none"]
  /\ i' = [i EXCEPT ![n] = 0]
  /\ j' = [j EXCEPT ![n] = 0]

TestQuit(n) ==
  /\ handler[n] = "quit"
  /\ IF quit THEN Answer(n, Ended) ELSE Goto(n, "done") /\ UNCHANGED <<node, i, j>>
  /\ UNCHANGED <<processorVars, quit, mainVars>>

\* Mutant of the next definition: the loop of nc_is_job_done stops at the first
\* row that is done.
JobDoneAtFirstRow(n) ==
  /\ handler[n] = "done"
  /\ IF mandel_job[i[n]] = "Done"
     THEN quit' = TRUE /\ Answer(n, Ended)
     ELSE /\ Goto(n, IF node[n].kind = "need" THEN "find" ELSE "lookup")
          /\ i' = [i EXCEPT ![n] = 0]
          /\ UNCHANGED <<quit, node, j>>
  /\ UNCHANGED <<processorVars, mainVars>>

\* One turn of the loop; a job found done sets quit.
nc_is_job_done(n) ==
  /\ handler[n] = "done"
  /\ IF mandel_job[i[n]] # "Done"
     THEN /\ Goto(n, IF node[n].kind = "need" THEN "find" ELSE "lookup")
          /\ i' = [i EXCEPT ![n] = 0]
          /\ UNCHANGED <<quit, node, j>>
     ELSE IF i[n] + 1 < Height
     THEN NextRow(n) /\ UNCHANGED <<quit, node, handler, j>>
     ELSE quit' = TRUE /\ Answer(n, Ended)
  /\ UNCHANGED <<processorVars, mainVars>>

-----------------------------------------------------------------------------
(* nc_get_new_data *)

\* One turn of the loop, up to the test of the row; after the last row the
\* marker for no more rows, from which the node computes the empty vector.
FindRow(n) ==
  /\ handler[n] = "find"
  /\ IF mandel_job[i[n]] = "UnProcessed"
     THEN Goto(n, "take") /\ UNCHANGED <<node, i, j>>
     ELSE IF i[n] + 1 < Height
     THEN NextRow(n) /\ UNCHANGED <<node, handler, j>>
     ELSE Answer(n, Result(NoRow))
  /\ UNCHANGED <<processorVars, quit, mainVars>>

TakeRow(n) ==
  /\ handler[n] = "take"
  /\ mandel_job' = [mandel_job EXCEPT ![i[n]] = "Processing"]
  /\ Goto(n, "enter")
  /\ UNCHANGED <<mandel_image, node_map, quit, mainVars, node, i, j>>

EnterNode(n) ==
  /\ handler[n] = "enter"
  /\ node_map' = [node_map EXCEPT ![n] = i[n]]
  /\ Answer(n, Result(i[n]))
  /\ UNCHANGED <<mandel_job, mandel_image, quit, mainVars>>

-----------------------------------------------------------------------------
(* nc_process_result *)

LookupNode(n) ==
  /\ handler[n] = "lookup"
  /\ IF node_map[n] = NoRow THEN Answer(n, NeedsData)
     ELSE /\ i' = [i EXCEPT ![n] = node_map[n]]
          /\ Goto(n, "test")
          /\ UNCHANGED <<node, j>>
  /\ UNCHANGED <<processorVars, quit, mainVars>>

\* Mutant of the next definition: the wrong status is asked for.
TestRowUnProcessed(n) ==
  /\ handler[n] = "test"
  /\ IF mandel_job[i[n]] = "UnProcessed" THEN Goto(n, "finish") /\ UNCHANGED <<node, i, j>>
     ELSE Answer(n, NeedsData)
  /\ UNCHANGED <<processorVars, quit, mainVars>>

TestRow(n) ==
  /\ handler[n] = "test"
  /\ IF mandel_job[i[n]] = "Processing" THEN Goto(n, "finish") /\ UNCHANGED <<node, i, j>>
     ELSE Answer(n, NeedsData)
  /\ UNCHANGED <<processorVars, quit, mainVars>>

\* Done comes first, then the line, if the result has the right size.
FinishRow(n) ==
  /\ handler[n] = "finish"
  /\ mandel_job' = [mandel_job EXCEPT ![i[n]] = "Done"]
  /\ IF node[n].row # NoRow THEN Goto(n, "copy") /\ UNCHANGED <<node, i, j>>
     ELSE Answer(n, NeedsData)
  /\ UNCHANGED <<mandel_image, node_map, quit, mainVars>>

Copied(n) ==
  IF j[n] + 1 < Width THEN j' = [j EXCEPT ![n] = @ + 1] /\ UNCHANGED <<node, handler, i>>
  ELSE Answer(n, NeedsData)

\* Mutants of the next definition: a wrong start in the image, and in the result.
CopyToShorterRows(n) ==
  /\ handler[n] = "copy"
  /\ mandel_image' = [mandel_image EXCEPT ![i[n] * (Height - 1) + j[n]] = Value(node[n].row, j[n])]
  /\ Copied(n)
  /\ UNCHANGED <<mandel_job, node_map, quit, mainVars>>
CopyFromSecondValue(n) ==
  /\ handler[n] = "copy"
  /\ mandel_image' = [mandel_image EXCEPT ![i[n] * Height + j[n]] = Value(node[n].row, j[n] + 1)]
  /\ Copied(n)
  /\ UNCHANGED <<mandel_job, node_map, quit, mainVars>>

\* One value of the memcpy to mandel_image[i * height].
CopyValue(n) ==
  /\ handler[n] = "copy"
  /\ mandel_image' = [mandel_image EXCEPT ![i[n] * Height + j[n]] = Value(node[n].row, j[n])]
  /\ Copied(n)
  /\ UNCHANGED <<mandel_job, node_map, quit, mainVars>>

-----------------------------------------------------------------------------
(* nc_run *)

CheckQuit ==
  /\ main_pc = "loop"
  /\ main_pc' = IF quit THEN "save" ELSE "accept"
  /\ UNCHANGED <<processorVars, quit, saved, half_copied, threadVars>>

nc_accept(n) ==
  /\ main_pc = "accept"
  /\ node[n] # Ended /\ handler[n] = "none"
  /\ main_pc' = "loop"
  /\ Goto(n, "quit")
  /\ UNCHANGED <<processorVars, quit, saved, half_copied, node, i, j>>

\* The rows some thread is in the middle of copying.
BeingCopied == {i[n] : n \in {m \in Node : handler[m] = "copy"}}

\* The file is written value by value.  That it holds the image as it was at the
\* start is the worst case, because values are only ever filled in.
nc_save_data ==
  /\ main_pc = "save"
  /\ saved' = {mandel_image}
  /\ half_copied' = BeingCopied
  /\ main_pc' = "join"
  /\ UNCHANGED <<processorVars, quit, threadVars>>

\* Mutant of the next definition: the client threads are detached.
DetachClients ==
  /\ main_pc = "join"
  /\ main_pc' = "returned"
  /\ UNCHANGED <<processorVars, quit, saved, half_copied, threadVars>>

JoinClients ==
  /\ main_pc = "join"
  /\ \A n \in Node : handler[n] = "none"
  /\ main_pc' = "returned"
  /\ UNCHANGED <<processorVars, quit, saved, half_copied, threadVars>>

-----------------------------------------------------------------------------
nc_handle_node(n) == \/ TestQuit(n) \/ nc_is_job_done(n)
                     \/ FindRow(n) \/ TakeRow(n) \/ EnterNode(n)
                     \/ LookupNode(n) \/ TestRow(n) \/ FinishRow(n) \/ CopyValue(n)

nc_run == CheckQuit \/ nc_save_data \/ JoinClients \/ \E n \in Node : nc_accept(n)

\* A thread is about to insert a new key into the unordered_map while another
\* is about to use it.  What happens then is undefined, and no step follows.
MeetInNodeMap ==
  \E n, m \in Node : /\ n # m
                     /\ handler[n] = "enter" /\ node_map[n] = NoRow
                     /\ handler[m] \in {"enter", "lookup"}

Next == /\ ~raced
        /\ nc_run \/ \E n \in Node : nc_handle_node(n)
        /\ raced' = MeetInNodeMap'

Spec == Init /\ [][Next]_vars

\* Threads run, and the kernel's queue lets every node be accepted.
Step(A) == ~raced /\ A /\ raced' = MeetInNodeMap'
Fairness == /\ WF_vars(Step(CheckQuit \/ nc_save_data \/ JoinClients))
            /\ \A n \in Node : WF_vars(Step(nc_handle_node(n))) /\ SF_vars(Step(nc_accept(n)))

FairSpec == Spec /\ Fairness

-----------------------------------------------------------------------------
(* Properties *)

TypeOK ==
  /\ mandel_job \in [Row -> JobStatus]
  /\ mandel_image \in Image
  /\ node_map \in [Node -> Row \cup {NoRow}]
  /\ raced \in BOOLEAN /\ quit \in BOOLEAN
  /\ main_pc \in {"loop", "accept", "save", "join", "returned"}
  /\ saved \in SUBSET Image
  /\ half_copied \in SUBSET Row
  /\ node \in [Node -> {NeedsData, Ended} \cup {Result(row) : row \in Row \cup {NoRow}}]
  /\ handler \in [Node -> HandlerPC]
  /\ i \in [Node -> Row] /\ j \in [Node -> Column]

Place(row, column) == Height * row + column     \* as nc_save_data reads the image

\* However the threads overtake each other, two of them taking the same row
\* included, no value is ever in a place it was not computed for.
LinesInPlace ==
  \A row \in Row : \A column \in Column :
    mandel_image[Place(row, column)] \in {Blank, Value(row, column)}

\* Threads may take the same row, and a thread that was slow to take a row may
\* set it back from Done to Processing.  Still, when nc_run has joined its
\* threads, every row is in memory: nobody decided to quit without it.
ImageCompleteAfterJoin ==
  main_pc = "returned" =>
    \A row \in Row : \A column \in Column :
      mandel_image[Place(row, column)] = Value(row, column)

\* The file may lack values (nc_process_result sets Done first, nc_run saves
\* before it joins): but only of rows a thread was copying at that moment.
SavedImageLacksHalfCopiedOnly ==
  \A image \in saved : \A row \in Row \ half_copied : \A column \in Column :
    image[Place(row, column)] = Value(row, column)

\* No interleaving of the unlocked callbacks loses a row for ever: the job gets
\* done, unless two threads meet in node_map.
JobGetsDone == <>(quit \/ raced)
=============================================================================
