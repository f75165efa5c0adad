---------------------------- MODULE MandelServer -----------------------------
(***************************************************************************)
(* The server's data processor of the mandel example on its own.  Its      *)
(* caller, NCServer, may call back in any order, for any node and with any *)
(* result a node can have computed, so the state machine below does too.   *)
(*                                                                         *)
(* The client threads' callbacks come one after the other here, as in      *)
(* NCSystem; MandelThreads takes them apart.  nc_node_timeout, on the      *)
(* heartbeat thread, is taken apart here: callbacks of all nodes come      *)
(* between its statements, those of its own node included, and it comes    *)
(* between the two uses of node_map in nc_process_result.  NCSystem takes  *)
(* all callbacks for single steps, which are actions below, too.           *)
(***************************************************************************)
EXTENDS MandelJob

VARIABLES processor,    \* the MandelServerProcessor object
          timeout,      \* {} or the nc_node_timeout that is under way: its node,
                        \* the row it read and its next statement
          looked_up,    \* the nodes nc_process_result has found in node_map (line
                        \* 105) and is about to look up there again (line 106)
          overlapped,   \* history: a callback for a node met the timeout of
                        \* that node
          quit,         \* the caller's quit
          gave_up,      \* history: nc_accept threw and so set quit
          saved         \* the image files written so far: {} or one image

caller == <<quit, gave_up, saved>>
vars == <<processor, timeout, looked_up, overlapped, caller>>

Timeout == [node : Node, row : Row, next : {"test", "reopen", "erase"}]

Init == /\ processor = NewProcessor
        /\ timeout = {} /\ looked_up = {} /\ overlapped = FALSE
        /\ quit = FALSE /\ gave_up = FALSE
        /\ saved = {}

\* nc_node_timeout(n) is under way, or has erased the entry that a callback for n
\* has just found.
Overlap(n) == (\E t \in timeout : t.node = n) \/ (n \in looked_up /\ ~Mapped(processor, n))

\* A callback for n comes.
Callback(n) == overlapped' = (overlapped \/ Overlap(n))

-----------------------------------------------------------------------------
(* The callbacks in one step each *)

GetNewData(n) ==
  /\ n \notin looked_up
  /\ \E o \in nc_get_new_data(processor, n) : processor' = o.processor
  /\ Callback(n)
  /\ UNCHANGED <<timeout, looked_up, caller>>

ProcessResult(n, result) ==
  /\ n \notin looked_up
  /\ processor' = nc_process_result(processor, n, result)
  /\ Callback(n)
  /\ UNCHANGED <<timeout, looked_up, caller>>

NodeTimeout(n) ==
  /\ timeout = {}
  /\ processor' = nc_node_timeout(processor, n)
  /\ UNCHANGED <<timeout, looked_up, overlapped, caller>>

-----------------------------------------------------------------------------
(* nc_node_timeout by statement.  A node of which contains (line 72) is true *)
(* has an entry until this thread erases it.                                 *)

TimeoutFindsRow(n) ==
  /\ timeout = {}
  /\ Mapped(processor, n)
  /\ timeout' = {[node |-> n, row |-> processor.node_map[n], next |-> "test"]}
  /\ UNCHANGED <<processor, looked_up, overlapped, caller>>

\* Mutant of the next definition: the test is the wrong way round.
TimeoutTestsDone(n) ==
  \E t \in timeout :
    /\ t.node = n /\ t.next = "test"
    /\ timeout' = {[t EXCEPT !.next = IF processor.mandel_job[t.row] # "Processing"
                                      THEN "reopen" ELSE "erase"]}
    /\ UNCHANGED <<processor, looked_up, overlapped, caller>>

TimeoutTestsRow(n) ==
  \E t \in timeout :
    /\ t.node = n /\ t.next = "test"
    /\ timeout' = {[t EXCEPT !.next = IF processor.mandel_job[t.row] = "Processing"
                                      THEN "reopen" ELSE "erase"]}
    /\ UNCHANGED <<processor, looked_up, overlapped, caller>>

TimeoutReopensRow(n) ==
  \E t \in timeout :
    /\ t.node = n /\ t.next = "reopen"
    /\ processor' = [processor EXCEPT !.mandel_job[t.row] = "UnProcessed"]
    /\ timeout' = {[t EXCEPT !.next = "erase"]}
    /\ UNCHANGED <<looked_up, overlapped, caller>>

TimeoutErases(n) ==
  \E t \in timeout :
    /\ t.node = n /\ t.next = "erase"
    /\ processor' = [processor EXCEPT !.node_map[n] = NoRow]
    /\ timeout' = {}
    /\ UNCHANGED <<looked_up, overlapped, caller>>

-----------------------------------------------------------------------------
(* nc_process_result in two steps, either side of its second use of node_map *)

ResultFindsNode(n) ==
  /\ n \notin looked_up
  /\ Mapped(processor, n)
  /\ looked_up' = looked_up \cup {n}
  /\ Callback(n)
  /\ UNCHANGED <<processor, timeout, caller>>

\* node_map[node_id] inserts row 0 if the entry has been erased.
ProcessFoundResult(n, result) ==
  /\ n \in looked_up
  /\ LET found == IF Mapped(processor, n) THEN processor
                  ELSE [processor EXCEPT !.node_map[n] = 0]
     IN  processor' = nc_process_result(found, n, result)
  /\ looked_up' = looked_up \ {n}
  /\ Callback(n)
  /\ UNCHANGED <<timeout, caller>>

-----------------------------------------------------------------------------
(* The caller: it quits when the job is done or when nc_accept throws, and  *)
(* saves once after that, later callbacks or not.                           *)

processorVars == <<processor, timeout, looked_up, overlapped>>

JobFoundDone ==
  /\ nc_is_job_done(processor)
  /\ quit' = TRUE
  /\ UNCHANGED <<processorVars, gave_up, saved>>

AcceptFails ==
  /\ saved = {}
  /\ quit' = TRUE /\ gave_up' = (gave_up \/ ~quit)
  /\ UNCHANGED <<processorVars, saved>>

\* Mutant of the next definition: i <= height.
SaveDataOneRowMore ==
  /\ quit /\ saved = {}
  /\ saved' = {[i \in 0 .. Height |-> IF i \in Row THEN processor.mandel_image[i] ELSE Blank]}
  /\ UNCHANGED <<processorVars, quit, gave_up>>

SaveData ==
  /\ quit /\ saved = {}
  /\ saved' = {processor.mandel_image}
  /\ UNCHANGED <<processorVars, quit, gave_up>>

NodeTimeoutStep(n) == \/ TimeoutFindsRow(n) \/ TimeoutTestsRow(n)
                      \/ TimeoutReopensRow(n) \/ TimeoutErases(n)

\* Nothing is claimed of what comes after a callback that met the timeout of its
\* own node: the behaviour ends with that step.
Next ==
  /\ ~overlapped
  /\ \/ \E n \in Node :
          \/ GetNewData(n)
          \/ NodeTimeout(n) \/ NodeTimeoutStep(n)
          \/ ResultFindsNode(n)
          \/ \E result \in LinePayload : ProcessResult(n, result) \/ ProcessFoundResult(n, result)
     \/ JobFoundDone \/ AcceptFails \/ SaveData

Spec == Init /\ [][Next]_vars

-----------------------------------------------------------------------------
TypeOK == /\ processor \in Processor
          /\ timeout = {} \/ \E t \in Timeout : timeout = {t}
          /\ looked_up \subseteq Node
          /\ overlapped \in BOOLEAN /\ quit \in BOOLEAN /\ gave_up \in BOOLEAN
          /\ saved \in {{}} \cup {{image} : image \in [Row -> Row \cup {Blank}]}

\* The entry of n is no longer meant: nc_node_timeout is about to erase it.
BeingErased(n) == \E t \in timeout : t.node = n /\ t.next = "erase"

\* The row of n's entry in node_map, if it is meant.
Holds(n, i) == processor.node_map[n] = i /\ ~BeingErased(n)

\* No two nodes hold the same row, and a row held is never in the pool
\* nc_get_new_data hands out from: otherwise two nodes would compute the same
\* row and the second result would be taken for another row's.  Callbacks for
\* other nodes may come between the statements of nc_node_timeout; one for its
\* own node (hazards of mandel_server.cpp:80 and :105) breaks this.
OwnerInv ==
  ~overlapped =>
    \A i \in Row : \A n \in Node : Holds(n, i) =>
      /\ processor.mandel_job[i] # "UnProcessed"
      /\ \A m \in Node : Holds(m, i) => n = m

\* A row that is being processed stays with a node that holds it, so that a
\* result or a timeout of that node can move it on, unless the node asks again
\* and is given another row; otherwise nobody ever computes it and the job
\* never ends (README.md:97, README.md:100).  A callback that meets the timeout
\* of its own node breaks this, too: a row handed out to the node between lines
\* 73 and 80 of mandel_server.cpp loses its entry at once.
Orphan(i) == processor.mandel_job[i] = "Processing" /\ \A n \in Node : ~Holds(n, i)

RowsKeepOwners ==
  [][~overlapped' =>
     \A i \in Row : Orphan(i)' => \/ Orphan(i)
                                 \/ \E n \in Node : /\ Holds(n, i)
                                                    /\ processor'.node_map[n] \in Row \ {i}]_vars

\* The line of a row is written with its completion and never again: an image
\* row is blank until its row is done, and no late or repeated result touches
\* a row that is done.  A callback that meets the timeout of its own node may
\* complete row 0, inserted into node_map at line 106, or reopen a done row.
DoneIsFinal ==
  [][~overlapped' =>
     \A i \in Row :
       /\ processor.mandel_job[i] = "Done" =>
            /\ processor'.mandel_job[i] = "Done"
            /\ processor'.mandel_image[i] = processor.mandel_image[i]
       /\ processor'.mandel_image[i] # processor.mandel_image[i] =>
            \E n \in Node : processor.node_map[n] = i]_vars

\* The processor keeps the promise of JobBoard: a claim is a row held that is
\* being processed; the caller gives up when nc_accept throws.
Claimed == [n \in Node |->
              IF /\ Mapped(processor, n) /\ ~BeingErased(n)
                 /\ processor.mandel_job[processor.node_map[n]] = "Processing"
              THEN processor.node_map[n] ELSE NoRow]
DoneRows == {i \in Row : processor.mandel_job[i] = "Done"}
Published == IF saved = {} THEN "nothing" ELSE IF gave_up THEN "soFar" ELSE "whole"

Board == INSTANCE JobBoard
           WITH Worker <- Node, Unit <- Row, NoUnit <- NoRow,
                claim <- Claimed, done <- DoneRows, published <- Published

\* As long as no callback meets the timeout of its own node, every step is a
\* step of JobBoard or leaves the board alone.
ImplementsJobBoard == Board!Init /\ [][Board!Next \/ overlapped']_(Board!board)
=============================================================================
