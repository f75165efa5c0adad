------------------------- MODULE MandelServerProofs --------------------------
(***************************************************************************)
(* MandelServer, for every number of rows and every set of nodes: its type *)
(* invariant, exclusive ownership of rows, that no row is orphaned, the    *)
(* finality of finished rows, and the refinement of JobBoard, all of them  *)
(* as long as no callback meets the timeout of its own node.               *)
(***************************************************************************)
EXTENDS MandelServer, TLAPS

\* No row has the number that stands for "no entry".
LEMMA RowFacts == NoRow \notin Row /\ Blank \notin Row /\ \A i \in Row : i \in Nat
BY HeightAssumption DEF Row, NoRow, Blank

\* What nc_get_new_data can do: nothing, or give the node one row of the pool.
LEMMA NewDataOutcome ==
  ASSUME NEW p, NEW n, NEW o \in nc_get_new_data(p, n)
  PROVE  \/ o.processor = p
         \/ \E i \in Row : /\ p.mandel_job[i] = "UnProcessed"
                           /\ o.processor = Assigned(p, n, i)
<1>. DEFINE pool == {i \in Row : p.mandel_job[i] = "UnProcessed"}
            first == {i \in pool : \A j \in pool : i <= j}
            Given(i) == [processor |-> Assigned(p, n, i), data |-> RowData(i)]
<1>1. CASE pool = {}
  <2>1. nc_get_new_data(p, n) = {[processor |-> p, data |-> NoMoreRows]}
    BY <1>1 DEF nc_get_new_data
  <2>. QED BY <2>1
<1>2. CASE pool # {}
  <2>1. nc_get_new_data(p, n) = {Given(i) : i \in first}
    BY <1>2 DEF nc_get_new_data
  <2>2. PICK i \in first : o = Given(i)
    BY <2>1
  <2>. QED BY <2>2
<1>. QED BY <1>1, <1>2

\* The callbacks return processor states.
LEMMA NewDataType ==
  ASSUME NEW p \in Processor, NEW n \in Node, NEW o \in nc_get_new_data(p, n)
  PROVE  o.processor \in Processor
<1>1. CASE o.processor = p
  BY <1>1
<1>2. ASSUME NEW i \in Row, o.processor = Assigned(p, n, i)
      PROVE  o.processor \in Processor
  BY <1>2 DEF Assigned, Processor, JobStatus
<1>. QED BY <1>1, <1>2, NewDataOutcome

LEMMA TimeoutType ==
  ASSUME NEW p \in Processor, NEW n \in Node
  PROVE  nc_node_timeout(p, n) \in Processor
BY DEF nc_node_timeout, Processor, JobStatus

LEMMA ResultType ==
  ASSUME NEW p \in Processor, NEW n \in Node, NEW result \in LinePayload
  PROVE  nc_process_result(p, n, result) \in Processor
<1>1. CASE ~Mapped(p, n) \/ p.mandel_job[p.node_map[n]] # "Processing"
  BY <1>1 DEF nc_process_result
<1>2. CASE Mapped(p, n) /\ p.mandel_job[p.node_map[n]] = "Processing"
  <2>1. p.node_map[n] \in Row
    BY <1>2 DEF Mapped, Processor
  <2>2. result \in LinePayload \ {EmptyLine} => result.line \in Row
    BY RowFacts DEF LinePayload, EmptyLine, Line
  <2>. QED
    BY <1>2, <2>1, <2>2 DEF nc_process_result, Processor, JobStatus
<1>. QED BY <1>1, <1>2

LEMMA EntryType ==
  ASSUME NEW p \in Processor, NEW n \in Node, NEW i \in Row \cup {NoRow}
  PROVE  [p EXCEPT !.node_map[n] = i] \in Processor
BY DEF Processor

LEMMA TypeBegins == Init => TypeOK
<1>1. NewProcessor \in Processor
  BY DEF NewProcessor, Processor, JobStatus
<1>. QED BY <1>1 DEF Init, TypeOK

\* Every reachable state has the declared types.
THEOREM TypeCorrect == Spec => []TypeOK
<1>1. Init => TypeOK
  BY TypeBegins
<1>2. TypeOK /\ [Next]_vars => TypeOK'
  <2>. SUFFICES ASSUME TypeOK, [Next]_vars PROVE TypeOK'
    OBVIOUS
  <2>. USE DEF TypeOK, caller, processorVars
  <2>1. ASSUME NEW n \in Node, GetNewData(n) PROVE TypeOK'
    BY <2>1, NewDataType DEF GetNewData, Callback, Overlap
  <2>2. ASSUME NEW n \in Node, NodeTimeout(n) PROVE TypeOK'
    BY <2>2, TimeoutType DEF NodeTimeout
  <2>3. ASSUME NEW n \in Node, NEW result \in LinePayload, ProcessResult(n, result) PROVE TypeOK'
    BY <2>3, ResultType DEF ProcessResult, Callback, Overlap
  <2>4. ASSUME NEW n \in Node, ResultFindsNode(n) PROVE TypeOK'
    BY <2>4 DEF ResultFindsNode, Callback, Overlap
  <2>5. ASSUME NEW n \in Node, NEW result \in LinePayload, ProcessFoundResult(n, result) PROVE TypeOK'
    <3>1. 0 \in Row
      BY HeightAssumption DEF Row
    <3>2. [processor EXCEPT !.node_map[n] = 0] \in Processor
      BY <3>1, EntryType
    <3>3. processor' \in Processor
      BY <2>5, <3>2, ResultType DEF ProcessFoundResult
    <3>. QED BY <2>5, <3>3 DEF ProcessFoundResult, Callback, Overlap
  <2>6. ASSUME NEW n \in Node, TimeoutFindsRow(n) PROVE TypeOK'
    <3>1. [node |-> n, row |-> processor.node_map[n], next |-> "test"] \in Timeout
      BY <2>6 DEF TimeoutFindsRow, Mapped, Processor, Timeout
    <3>. QED BY <2>6, <3>1 DEF TimeoutFindsRow
  <2>7. ASSUME NEW n \in Node, TimeoutTestsRow(n) PROVE TypeOK'
    <3>1. PICK t \in Timeout : \E pc \in {"reopen", "erase"} : timeout' = {[t EXCEPT !.next = pc]}
      BY <2>7 DEF TimeoutTestsRow
    <3>2. \E s \in Timeout : timeout' = {s}
      BY <3>1 DEF Timeout
    <3>. QED BY <2>7, <3>2 DEF TimeoutTestsRow
  <2>8. ASSUME NEW n \in Node, TimeoutReopensRow(n) PROVE TypeOK'
    <3>1. PICK t \in Timeout : /\ timeout' = {[t EXCEPT !.next = "erase"]}
                               /\ processor' = [processor EXCEPT !.mandel_job[t.row] = "UnProcessed"]
      BY <2>8 DEF TimeoutReopensRow
    <3>2. \E s \in Timeout : timeout' = {s}
      BY <3>1 DEF Timeout
    <3>3. processor' \in Processor
      BY <3>1 DEF Processor, JobStatus
    <3>. QED BY <2>8, <3>2, <3>3 DEF TimeoutReopensRow
  <2>9. ASSUME NEW n \in Node, TimeoutErases(n) PROVE TypeOK'
    BY <2>9, EntryType DEF TimeoutErases
  <2>10. CASE JobFoundDone \/ AcceptFails
    BY <2>10 DEF JobFoundDone, AcceptFails
  <2>11. CASE SaveData
    BY <2>11 DEF SaveData, Processor
  <2>12. CASE UNCHANGED vars
    BY <2>12 DEF vars
  <2>. QED BY <2>1, <2>2, <2>3, <2>4, <2>5, <2>6, <2>7, <2>8, <2>9, <2>10, <2>11, <2>12
           DEF Next, NodeTimeoutStep
<1>. QED BY <1>1, <1>2, PTL DEF Spec

-----------------------------------------------------------------------------
(* The inductive invariant, as long as no callback met the timeout of its     *)
(* own node                                                                   *)

\* nc_node_timeout acts on what is still true: the entry is the one it read, and
\* the row it is about to reopen is still being processed.
TimeoutInv ==
  ~overlapped => \A t \in timeout :
    /\ processor.node_map[t.node] = t.row
    /\ t.next = "reopen" => processor.mandel_job[t.row] = "Processing"

\* The caller quits for one of its two reasons.
QuitInv == ~overlapped /\ quit => gave_up \/ nc_is_job_done(processor)

ServerInv == TypeOK /\ OwnerInv /\ TimeoutInv /\ QuitInv

Free(n) == \A t \in timeout : t.node # n

\* Node n gets row i of the pool.
Hands(n, i) ==
  /\ processor.mandel_job[i] = "UnProcessed"
  /\ processor'.node_map = [processor.node_map EXCEPT ![n] = i]
  /\ processor'.mandel_job = [processor.mandel_job EXCEPT ![i] = "Processing"]
  /\ UNCHANGED processor.mandel_image
  /\ Free(n)
  /\ UNCHANGED <<timeout, caller>>

\* The row of n is done.
Completes(n) ==
  /\ processor.node_map[n] \in Row
  /\ processor.mandel_job[processor.node_map[n]] = "Processing"
  /\ processor'.mandel_job = [processor.mandel_job EXCEPT ![processor.node_map[n]] = "Done"]
  /\ UNCHANGED processor.node_map
  /\ \A i \in Row \ {processor.node_map[n]} : UNCHANGED processor.mandel_image[i]
  /\ Free(n)
  /\ UNCHANGED <<timeout, caller>>

CallerStep == (JobFoundDone \/ AcceptFails \/ SaveData) /\ UNCHANGED <<processor, timeout>>

Kind == \/ \E n \in Node : (\E i \in Row : Hands(n, i)) \/ Completes(n)
        \/ \E n \in Node : NodeTimeout(n) \/ NodeTimeoutStep(n)
        \/ CallerStep
        \/ UNCHANGED <<processor, timeout, caller>>

LEMMA ResultKind ==
  ASSUME TypeOK, NEW n \in Node, NEW result, Free(n), UNCHANGED <<timeout, caller>>,
         processor' = nc_process_result(processor, n, result)
  PROVE  Completes(n) \/ UNCHANGED <<processor, timeout, caller>>
<1>1. CASE ~Mapped(processor, n) \/ processor.mandel_job[processor.node_map[n]] # "Processing"
  BY <1>1 DEF nc_process_result
<1>2. CASE Mapped(processor, n) /\ processor.mandel_job[processor.node_map[n]] = "Processing"
  <2>1. processor.node_map[n] \in Row
    BY <1>2 DEF TypeOK, Processor, Mapped
  <2>2. /\ processor'.mandel_job = [processor.mandel_job EXCEPT ![processor.node_map[n]] = "Done"]
        /\ processor'.node_map = processor.node_map
        /\ \/ processor'.mandel_image = processor.mandel_image
           \/ \E line : processor'.mandel_image = [processor.mandel_image EXCEPT ![processor.node_map[n]] = line]
    BY <1>2 DEF nc_process_result
  <2>3. \A i \in Row \ {processor.node_map[n]} : processor'.mandel_image[i] = processor.mandel_image[i]
    BY <2>1, <2>2 DEF TypeOK, Processor
  <2>. QED BY <1>2, <2>1, <2>2, <2>3 DEF Completes
<1>. QED BY <1>1, <1>2

LEMMA Kinds ==
  ASSUME TypeOK, [Next]_vars, ~overlapped'
  PROVE  ~overlapped /\ Kind
<1>. USE DEF Callback, Overlap, Free
<1>1. ASSUME NEW n \in Node, GetNewData(n) PROVE ~overlapped /\ Kind
  <2>1. PICK o \in nc_get_new_data(processor, n) : processor' = o.processor
    BY <1>1 DEF GetNewData
  <2>2. ~overlapped /\ Free(n) /\ UNCHANGED <<timeout, caller>>
    BY <1>1 DEF GetNewData
  <2>3. ASSUME NEW i \in Row, processor.mandel_job[i] = "UnProcessed", processor' = Assigned(processor, n, i)
        PROVE  Hands(n, i)
    BY <2>2, <2>3 DEF Hands, Assigned
  <2>. QED BY <2>1, <2>2, <2>3, NewDataOutcome DEF Kind
<1>2. ASSUME NEW n \in Node, NEW result \in LinePayload, ProcessResult(n, result)
      PROVE  ~overlapped /\ Kind
  BY <1>2, ResultKind DEF ProcessResult, Kind
<1>3. ASSUME NEW n \in Node, NEW result \in LinePayload, ProcessFoundResult(n, result)
      PROVE  ~overlapped /\ Kind
  <2>1. ~overlapped /\ Free(n) /\ Mapped(processor, n)
    BY <1>3 DEF ProcessFoundResult
  <2>. QED BY <1>3, <2>1, ResultKind DEF ProcessFoundResult, Kind
<1>4. ASSUME NEW n \in Node, ResultFindsNode(n) PROVE ~overlapped /\ Kind
  BY <1>4 DEF ResultFindsNode, Kind
<1>5. ASSUME NEW n \in Node, NodeTimeout(n) \/ NodeTimeoutStep(n) PROVE ~overlapped /\ Kind
  <2>1. UNCHANGED overlapped
    BY <1>5 DEF NodeTimeout, NodeTimeoutStep, TimeoutFindsRow, TimeoutTestsRow, TimeoutReopensRow,
                TimeoutErases
  <2>. QED BY <1>5, <2>1 DEF Kind
<1>6. CASE JobFoundDone \/ AcceptFails \/ SaveData
  BY <1>6 DEF JobFoundDone, AcceptFails, SaveData, processorVars, CallerStep, Kind
<1>7. CASE UNCHANGED vars
  BY <1>7 DEF vars, Kind
<1>. QED BY <1>1, <1>2, <1>3, <1>4, <1>5, <1>6, <1>7 DEF Next

LEMMA ServerBegins == Init => ServerInv
<1>1. Init => TypeOK
  BY TypeBegins
<1>2. Init => OwnerInv /\ TimeoutInv /\ QuitInv
  BY RowFacts DEF Init, NewProcessor, OwnerInv, Holds, TimeoutInv, QuitInv
<1>. QED BY <1>1, <1>2 DEF ServerInv

\* What nc_node_timeout does to the entries, in one step or in its last.
LEMMA TimeoutFacts ==
  ASSUME TypeOK, NEW n \in Node
  PROVE  /\ NodeTimeout(n) => /\ timeout = {} /\ timeout' = {} /\ UNCHANGED caller
                              /\ processor'.node_map = [processor.node_map EXCEPT ![n] = NoRow]
                              /\ processor'.mandel_image = processor.mandel_image
                              /\ \A i \in Row : processor'.mandel_job[i] =
                                   IF i = processor.node_map[n] /\ processor.mandel_job[i] = "Processing"
                                   THEN "UnProcessed" ELSE processor.mandel_job[i]
         /\ TimeoutFindsRow(n) => /\ timeout = {} /\ UNCHANGED <<processor, caller>>
                                  /\ processor.node_map[n] \in Row
                                  /\ timeout' = {[node |-> n, row |-> processor.node_map[n], next |-> "test"]}
<1>1. ASSUME NodeTimeout(n)
      PROVE  /\ timeout = {} /\ timeout' = {} /\ UNCHANGED caller
             /\ processor'.node_map = [processor.node_map EXCEPT ![n] = NoRow]
             /\ processor'.mandel_image = processor.mandel_image
             /\ \A i \in Row : processor'.mandel_job[i] =
                  IF i = processor.node_map[n] /\ processor.mandel_job[i] = "Processing"
                  THEN "UnProcessed" ELSE processor.mandel_job[i]
  BY <1>1 DEF NodeTimeout, nc_node_timeout
<1>2. ASSUME TimeoutFindsRow(n)
      PROVE  /\ timeout = {} /\ UNCHANGED <<processor, caller>>
             /\ processor.node_map[n] \in Row
             /\ timeout' = {[node |-> n, row |-> processor.node_map[n], next |-> "test"]}
  BY <1>2 DEF TimeoutFindsRow, Mapped, TypeOK, Processor
<1>. QED BY <1>1, <1>2

\* The same of its other statements, for the one timeout t that is under way.
Statement(n, t) ==
  /\ timeout = {t} /\ t.node = n /\ UNCHANGED caller
  /\ processor'.mandel_image = processor.mandel_image
  /\ \/ /\ t.next = "test" /\ processor' = processor
        /\ timeout' = {[node |-> n, row |-> t.row,
                        next |-> IF processor.mandel_job[t.row] = "Processing" THEN "reopen" ELSE "erase"]}
     \/ /\ t.next = "reopen"
        /\ timeout' = {[node |-> n, row |-> t.row, next |-> "erase"]}
        /\ processor'.node_map = processor.node_map
        /\ processor'.mandel_job = [processor.mandel_job EXCEPT ![t.row] = "UnProcessed"]
     \/ /\ t.next = "erase" /\ timeout' = {}
        /\ processor'.node_map = [processor.node_map EXCEPT ![n] = NoRow]
        /\ processor'.mandel_job = processor.mandel_job

LEMMA StatementFacts ==
  ASSUME TypeOK, NEW n \in Node, TimeoutTestsRow(n) \/ TimeoutReopensRow(n) \/ TimeoutErases(n)
  PROVE  \E t \in Timeout : Statement(n, t)
<1>1. PICK t \in Timeout : timeout = {t}
  BY DEF TypeOK, TimeoutTestsRow, TimeoutReopensRow, TimeoutErases
<1>2. \A pc : [t EXCEPT !.next = pc] = [node |-> t.node, row |-> t.row, next |-> pc]
  BY DEF Timeout
<1>. SUFFICES Statement(n, t)
  OBVIOUS
<1>3. CASE TimeoutTestsRow(n)
  <2>1. /\ t.node = n /\ t.next = "test" /\ UNCHANGED caller /\ processor' = processor
        /\ timeout' = {[t EXCEPT !.next = IF processor.mandel_job[t.row] = "Processing"
                                          THEN "reopen" ELSE "erase"]}
    BY <1>1, <1>3 DEF TimeoutTestsRow
  <2>. QED BY <1>1, <1>2, <2>1 DEF Statement
<1>4. CASE TimeoutReopensRow(n)
  <2>1. /\ t.node = n /\ t.next = "reopen" /\ UNCHANGED caller
        /\ processor' = [processor EXCEPT !.mandel_job[t.row] = "UnProcessed"]
        /\ timeout' = {[t EXCEPT !.next = "erase"]}
    BY <1>1, <1>4 DEF TimeoutReopensRow
  <2>2. /\ processor'.node_map = processor.node_map /\ processor'.mandel_image = processor.mandel_image
        /\ processor'.mandel_job = [processor.mandel_job EXCEPT ![t.row] = "UnProcessed"]
    BY <2>1 DEF TypeOK, Processor
  <2>. QED BY <1>1, <1>2, <2>1, <2>2 DEF Statement
<1>5. CASE TimeoutErases(n)
  <2>1. /\ t.node = n /\ t.next = "erase" /\ UNCHANGED caller /\ timeout' = {}
        /\ processor' = [processor EXCEPT !.node_map[n] = NoRow]
    BY <1>1, <1>5 DEF TimeoutErases
  <2>2. /\ processor'.mandel_job = processor.mandel_job /\ processor'.mandel_image = processor.mandel_image
        /\ processor'.node_map = [processor.node_map EXCEPT ![n] = NoRow]
    BY <2>1 DEF TypeOK, Processor
  <2>. QED BY <1>1, <2>1, <2>2 DEF Statement
<1>. QED BY <1>3, <1>4, <1>5

-----------------------------------------------------------------------------
(* Owners *)

LEMMA OwnersKept == ASSUME ServerInv, [Next]_vars PROVE OwnerInv' /\ TimeoutInv'
<1>. SUFFICES ASSUME ~overlapped' PROVE OwnerInv' /\ TimeoutInv'
  BY DEF OwnerInv, TimeoutInv
<1>0. ~overlapped /\ Kind /\ TypeOK
  BY Kinds DEF ServerInv
<1>1. /\ processor.node_map \in [Node -> Row \cup {NoRow}]
      /\ processor.mandel_job \in [Row -> JobStatus]
  BY <1>0 DEF TypeOK, Processor
<1>2. /\ \A i \in Row : \A n, m \in Node :
           /\ Holds(n, i) => processor.mandel_job[i] # "UnProcessed"
           /\ Holds(n, i) /\ Holds(m, i) => n = m
      /\ \A t \in timeout : /\ processor.node_map[t.node] = t.row
                            /\ t.next = "reopen" => processor.mandel_job[t.row] = "Processing"
  BY <1>0 DEF ServerInv, OwnerInv, TimeoutInv
<1>. DEFINE Owned == \A i \in Row : \A n, m \in Node :
                       /\ Holds(n, i)' => processor'.mandel_job[i] # "UnProcessed"
                       /\ Holds(n, i)' /\ Holds(m, i)' => n = m
            Meant == \A t \in timeout' :
                       /\ processor'.node_map[t.node] = t.row
                       /\ t.next = "reopen" => processor'.mandel_job[t.row] = "Processing"
<1>. SUFFICES Owned /\ Meant
  BY DEF OwnerInv, TimeoutInv
<1>. USE RowFacts
<1>3. ASSUME NEW n \in Node, NEW i \in Row, Hands(n, i) PROVE Owned /\ Meant
  <2>1. /\ \A m \in Node : processor'.node_map[m] = IF m = n THEN i ELSE processor.node_map[m]
        /\ \A j \in Row : processor'.mandel_job[j] = IF j = i THEN "Processing" ELSE processor.mandel_job[j]
        /\ processor.mandel_job[i] = "UnProcessed" /\ Free(n) /\ timeout' = timeout
    BY <1>1, <1>3 DEF Hands
  <2>2. \A m \in Node : BeingErased(m)' <=> BeingErased(m)
    BY <2>1 DEF BeingErased
  <2>3. \A m \in Node : ~Holds(m, i)
    BY <1>2, <2>1
  <2>4. \A m \in Node : \A j \in Row : Holds(m, j)' => (m = n /\ j = i) \/ (m # n /\ Holds(m, j))
    BY <2>1, <2>2 DEF Holds
  <2>5. Owned
    BY <1>2, <2>1, <2>3, <2>4
  <2>6. Meant
    <3>1. \A t \in timeout : t.node \in Node /\ t.node # n /\ t.row \in Row
      BY <1>0, <2>1 DEF TypeOK, Timeout, Free
    <3>. QED BY <1>2, <2>1, <3>1
  <2>. QED BY <2>5, <2>6
<1>4. ASSUME NEW n \in Node, Completes(n) PROVE Owned /\ Meant
  <2>. DEFINE i == processor.node_map[n]
  <2>1. /\ i \in Row /\ processor'.node_map = processor.node_map /\ Free(n) /\ timeout' = timeout
        /\ \A j \in Row : processor'.mandel_job[j] = IF j = i THEN "Done" ELSE processor.mandel_job[j]
    BY <1>1, <1>4 DEF Completes
  <2>2. \A m \in Node : \A j \in Row : Holds(m, j)' <=> Holds(m, j)
    BY <2>1 DEF BeingErased, Holds
  <2>3. Owned
    BY <1>2, <2>1, <2>2
  <2>4. Holds(n, i)
    BY <2>1 DEF Holds, BeingErased, Free
  <2>5. Meant
    <3>1. \A t \in timeout : t.next = "reopen" => Holds(t.node, t.row)
      BY <1>0, <1>2 DEF TypeOK, Holds, BeingErased
    <3>2. \A t \in timeout : t.node \in Node /\ t.node # n /\ t.row \in Row
      BY <1>0, <2>1 DEF TypeOK, Timeout, Free
    <3>3. \A t \in timeout : t.next = "reopen" => t.row # i
      BY <1>2, <2>1, <2>4, <3>1, <3>2
    <3>. QED BY <1>2, <2>1, <3>2, <3>3
  <2>. QED BY <2>3, <2>5
<1>5. ASSUME NEW n \in Node, NodeTimeout(n) PROVE Owned /\ Meant
  <2>1. /\ timeout = {} /\ timeout' = {}
        /\ \A m \in Node : processor'.node_map[m] = IF m = n THEN NoRow ELSE processor.node_map[m]
        /\ \A j \in Row : j # processor.node_map[n] => processor'.mandel_job[j] = processor.mandel_job[j]
    BY <1>0, <1>1, <1>5, TimeoutFacts
  <2>2. \A m \in Node : \A j \in Row : Holds(m, j)' => m # n /\ Holds(m, j)
    BY <2>1 DEF BeingErased, Holds
  <2>3. \A j \in Row : j = processor.node_map[n] => Holds(n, j)
    BY <2>1 DEF BeingErased, Holds
  <2>. QED BY <1>2, <2>1, <2>2, <2>3
<1>6. ASSUME NEW n \in Node, TimeoutFindsRow(n) PROVE Owned /\ Meant
  <2>1. /\ timeout = {} /\ processor' = processor
        /\ timeout' = {[node |-> n, row |-> processor.node_map[n], next |-> "test"]}
    BY <1>0, <1>6, TimeoutFacts
  <2>2. \A m \in Node : \A j \in Row : Holds(m, j)' => Holds(m, j)
    BY <2>1 DEF BeingErased, Holds
  <2>. QED BY <1>2, <2>1, <2>2
<1>7. ASSUME NEW n \in Node, TimeoutTestsRow(n) \/ TimeoutReopensRow(n) \/ TimeoutErases(n)
      PROVE  Owned /\ Meant
  <2>1. PICK t \in Timeout : Statement(n, t)
    BY <1>0, <1>7, StatementFacts
  <2>2. t.row \in Row /\ processor.node_map[n] = t.row
    BY <1>2, <2>1 DEF Statement, Timeout
  <2>3. CASE t.next = "test"
    <3>1. /\ processor' = processor
          /\ timeout' = {[node |-> n, row |-> t.row,
                          next |-> IF processor.mandel_job[t.row] = "Processing" THEN "reopen" ELSE "erase"]}
      BY <2>1, <2>3 DEF Statement
    <3>2. \A m \in Node : \A j \in Row : Holds(m, j)' => Holds(m, j)
      BY <2>1, <2>3, <3>1 DEF Statement, BeingErased, Holds
    <3>. QED BY <1>2, <2>2, <3>1, <3>2
  <2>4. CASE t.next = "reopen"
    <3>1. /\ timeout' = {[node |-> n, row |-> t.row, next |-> "erase"]}
          /\ processor'.node_map = processor.node_map
          /\ \A j \in Row : processor'.mandel_job[j] = IF j = t.row THEN "UnProcessed" ELSE processor.mandel_job[j]
      BY <1>1, <2>1, <2>4 DEF Statement
    <3>2. \A m \in Node : \A j \in Row : Holds(m, j)' => m # n /\ Holds(m, j)
      BY <2>1, <2>4, <3>1 DEF Statement, BeingErased, Holds
    <3>3. Holds(n, t.row)
      BY <2>1, <2>2, <2>4 DEF Statement, BeingErased, Holds
    <3>. QED BY <1>2, <2>2, <3>1, <3>2, <3>3
  <2>5. CASE t.next = "erase"
    <3>1. /\ timeout' = {} /\ processor'.mandel_job = processor.mandel_job
          /\ \A m \in Node : processor'.node_map[m] = IF m = n THEN NoRow ELSE processor.node_map[m]
      BY <1>1, <2>1, <2>5 DEF Statement
    <3>2. \A m \in Node : \A j \in Row : Holds(m, j)' => m # n /\ Holds(m, j)
      BY <2>1, <3>1 DEF Statement, BeingErased, Holds
    <3>. QED BY <1>2, <3>1, <3>2
  <2>. QED BY <2>1, <2>3, <2>4, <2>5 DEF Statement
<1>8. CASE UNCHANGED <<processor, timeout>>
  <2>1. \A m \in Node : \A j \in Row : Holds(m, j)' <=> Holds(m, j)
    BY <1>8 DEF BeingErased, Holds
  <2>. QED BY <1>2, <1>8, <2>1
<1>. QED BY <1>0, <1>3, <1>4, <1>5, <1>6, <1>7, <1>8 DEF Kind, CallerStep, NodeTimeoutStep

-----------------------------------------------------------------------------
\* A step of the processor, row by row: what is done stays as it is, and only
\* the row of some node's entry gets a line.
RowStep(i) ==
  /\ processor.mandel_job[i] = "Done" =>
       /\ processor'.mandel_job[i] = "Done"
       /\ processor'.mandel_image[i] = processor.mandel_image[i]
  /\ processor'.mandel_image[i] # processor.mandel_image[i] =>
       \E n \in Node : processor.node_map[n] = i

LEMMA RowSteps == ASSUME ServerInv, [Next]_vars, ~overlapped', NEW i \in Row PROVE RowStep(i)
<1>0. ~overlapped /\ Kind /\ TypeOK
  BY Kinds DEF ServerInv
<1>1. processor.mandel_job \in [Row -> JobStatus]
  BY <1>0 DEF TypeOK, Processor
<1>2. ASSUME NEW n \in Node, NEW j \in Row, Hands(n, j) PROVE RowStep(i)
  BY <1>1, <1>2 DEF Hands, RowStep
<1>3. ASSUME NEW n \in Node, Completes(n) PROVE RowStep(i)
  BY <1>1, <1>3 DEF Completes, RowStep
<1>4. ASSUME NEW n \in Node, NodeTimeout(n) PROVE RowStep(i)
  BY <1>0, <1>4, TimeoutFacts DEF RowStep
<1>5. ASSUME NEW n \in Node, TimeoutTestsRow(n) \/ TimeoutReopensRow(n) \/ TimeoutErases(n)
      PROVE  RowStep(i)
  <2>1. PICK t \in Timeout : Statement(n, t)
    BY <1>0, <1>5, StatementFacts
  <2>2. t.next = "reopen" => processor.mandel_job[t.row] = "Processing"
    BY <1>0, <2>1 DEF Statement, ServerInv, TimeoutInv
  <2>3. processor'.mandel_image = processor.mandel_image
        /\ (processor.mandel_job[i] = "Done" => processor'.mandel_job[i] = "Done")
    BY <1>1, <2>1, <2>2 DEF Statement
  <2>. QED BY <2>3 DEF RowStep
<1>6. CASE UNCHANGED processor
  BY <1>6 DEF RowStep
<1>7. ASSUME NEW n \in Node, TimeoutFindsRow(n) PROVE UNCHANGED processor
  BY <1>0, <1>7, TimeoutFacts
<1>. QED BY <1>0, <1>2, <1>3, <1>4, <1>5, <1>6, <1>7 DEF Kind, CallerStep, NodeTimeoutStep

LEMMA QuitKept == ASSUME ServerInv, [Next]_vars PROVE QuitInv'
<1>. SUFFICES ASSUME ~overlapped', quit', ~gave_up' PROVE nc_is_job_done(processor')
  BY DEF QuitInv
<1>1. ~overlapped /\ Kind /\ TypeOK
  BY Kinds DEF ServerInv
<1>2. nc_is_job_done(processor) => nc_is_job_done(processor')
  BY RowSteps DEF RowStep, nc_is_job_done
<1>3. CASE quit /\ ~gave_up
  BY <1>1, <1>2, <1>3 DEF ServerInv, QuitInv
<1>4. CASE UNCHANGED caller
  BY <1>3, <1>4 DEF caller
<1>5. CASE CallerStep
  <2>1. JobFoundDone \/ (quit /\ ~gave_up)
    BY <1>1, <1>5 DEF CallerStep, AcceptFails, SaveData, TypeOK
  <2>. QED BY <1>2, <1>3, <2>1 DEF JobFoundDone
<1>6. ASSUME NEW n \in Node, NodeTimeout(n) \/ NodeTimeoutStep(n) PROVE UNCHANGED caller
  BY <1>6 DEF NodeTimeout, NodeTimeoutStep, TimeoutFindsRow, TimeoutTestsRow, TimeoutReopensRow,
              TimeoutErases
<1>. QED BY <1>1, <1>4, <1>5, <1>6 DEF Kind, Hands, Completes

LEMMA ServerInvariant == Spec => []ServerInv
<1>1. ServerInv /\ TypeOK' /\ [Next]_vars => ServerInv'
  BY OwnersKept, QuitKept DEF ServerInv
<1>. QED BY <1>1, ServerBegins, TypeCorrect, PTL DEF Spec

\* One node per row, and no row both owned and in the pool, with callbacks for
\* other nodes between the statements of nc_node_timeout (mandel_server.cpp:69-84).
THEOREM OwnersExclusive == Spec => []OwnerInv
<1>1. ServerInv => OwnerInv
  BY DEF ServerInv
<1>. QED BY <1>1, ServerInvariant, PTL

\* Finished rows are final, whatever calls arrive later, as long as none meets
\* the timeout of its own node (mandel_server.cpp:69-121).
THEOREM DoneRowsFinal == Spec => DoneIsFinal
<1>1. ServerInv /\ [Next]_vars => [~overlapped' => \A i \in Row : RowStep(i)]_vars
  BY RowSteps
<1>. QED BY <1>1, ServerInvariant, PTL DEF Spec, DoneIsFinal, RowStep

-----------------------------------------------------------------------------
\* What may happen to the node of row i.
KeepsOwner(i) ==
  Orphan(i)' => \/ Orphan(i)
                \/ \E n \in Node : /\ Holds(n, i)
                                   /\ processor'.node_map[n] \in Row \ {i}

LEMMA OwnersStay == ASSUME ServerInv, [Next]_vars, ~overlapped', NEW i \in Row PROVE KeepsOwner(i)
<1>0. ~overlapped /\ Kind /\ TypeOK
  BY Kinds DEF ServerInv
<1>1. /\ processor.node_map \in [Node -> Row \cup {NoRow}]
      /\ processor.mandel_job \in [Row -> JobStatus]
  BY <1>0 DEF TypeOK, Processor
<1>. USE RowFacts
<1>2. ASSUME processor'.mandel_job[i] = "Processing" => processor.mandel_job[i] = "Processing",
             \A m \in Node : Holds(m, i) => Holds(m, i)'
      PROVE  KeepsOwner(i)
  BY <1>2 DEF KeepsOwner, Orphan
<1>3. ASSUME NEW n \in Node, NEW j \in Row, Hands(n, j) PROVE KeepsOwner(i)
  <2>1. /\ \A m \in Node : processor'.node_map[m] = IF m = n THEN j ELSE processor.node_map[m]
        /\ \A k \in Row : processor'.mandel_job[k] = IF k = j THEN "Processing" ELSE processor.mandel_job[k]
        /\ \A m \in Node : BeingErased(m)' <=> BeingErased(m)
        /\ ~BeingErased(n)
    BY <1>1, <1>3 DEF Hands, BeingErased, Free
  <2>2. CASE i = j
    <3>1. Holds(n, i)'
      BY <2>1, <2>2 DEF Holds
    <3>. QED BY <3>1 DEF KeepsOwner, Orphan
  <2>3. CASE i # j
    <3>1. processor'.mandel_job[i] = processor.mandel_job[i]
          /\ \A m \in Node \ {n} : Holds(m, i)' <=> Holds(m, i)
      BY <2>1, <2>3 DEF Holds
    <3>2. processor'.node_map[n] \in Row \ {i}
      BY <2>1, <2>3
    <3>. QED BY <3>1, <3>2 DEF KeepsOwner, Orphan
  <2>. QED BY <2>2, <2>3
<1>4. ASSUME NEW n \in Node, Completes(n) PROVE KeepsOwner(i)
  <2>1. processor'.mandel_job[i] = "Processing" => processor.mandel_job[i] = "Processing"
    BY <1>1, <1>4 DEF Completes
  <2>2. \A m \in Node : Holds(m, i) => Holds(m, i)'
    BY <1>4 DEF Completes, Holds, BeingErased
  <2>. QED BY <1>2, <2>1, <2>2
<1>5. ASSUME NEW n \in Node, NodeTimeout(n) PROVE KeepsOwner(i)
  <2>1. /\ timeout = {} /\ timeout' = {}
        /\ \A m \in Node \ {n} : processor'.node_map[m] = processor.node_map[m]
        /\ processor'.mandel_job[i] = "Processing" =>
             processor.mandel_job[i] = "Processing" /\ i # processor.node_map[n]
    BY <1>0, <1>1, <1>5, TimeoutFacts
  <2>2. processor'.mandel_job[i] = "Processing" => \A m \in Node : Holds(m, i) => Holds(m, i)'
    BY <2>1 DEF Holds, BeingErased
  <2>. QED BY <2>1, <2>2 DEF KeepsOwner, Orphan
<1>6. ASSUME NEW n \in Node, TimeoutFindsRow(n) PROVE KeepsOwner(i)
  <2>1. /\ timeout = {} /\ processor' = processor
        /\ timeout' = {[node |-> n, row |-> processor.node_map[n], next |-> "test"]}
    BY <1>0, <1>6, TimeoutFacts
  <2>2. \A m \in Node : Holds(m, i) => Holds(m, i)'
    BY <2>1 DEF Holds, BeingErased
  <2>. QED BY <1>2, <2>1, <2>2
<1>7. ASSUME NEW n \in Node, TimeoutTestsRow(n) \/ TimeoutReopensRow(n) \/ TimeoutErases(n)
      PROVE  KeepsOwner(i)
  <2>1. PICK t \in Timeout : Statement(n, t)
    BY <1>0, <1>7, StatementFacts
  <2>2. t.row \in Row /\ processor.node_map[n] = t.row
    BY <1>0, <2>1 DEF Statement, ServerInv, TimeoutInv, Timeout
  <2>3. CASE t.next = "test"
    <3>1. /\ processor' = processor
          /\ timeout' = {[node |-> n, row |-> t.row,
                          next |-> IF processor.mandel_job[t.row] = "Processing" THEN "reopen" ELSE "erase"]}
      BY <2>1, <2>3 DEF Statement
    <3>2. processor.mandel_job[i] = "Processing" => \A m \in Node : Holds(m, i) => Holds(m, i)'
      BY <2>2, <3>1 DEF Holds, BeingErased
    <3>. QED BY <3>1, <3>2 DEF KeepsOwner, Orphan
  <2>4. CASE t.next = "reopen"
    <3>1. /\ timeout' = {[node |-> n, row |-> t.row, next |-> "erase"]}
          /\ processor'.node_map = processor.node_map
          /\ processor'.mandel_job[i] = IF i = t.row THEN "UnProcessed" ELSE processor.mandel_job[i]
      BY <1>1, <2>1, <2>4 DEF Statement
    <3>2. i # t.row => \A m \in Node : Holds(m, i) => Holds(m, i)'
      BY <2>2, <3>1 DEF Holds, BeingErased
    <3>. QED BY <3>1, <3>2 DEF KeepsOwner, Orphan
  <2>5. CASE t.next = "erase"
    <3>1. /\ timeout = {t} /\ t.node = n /\ timeout' = {} /\ processor'.mandel_job = processor.mandel_job
          /\ \A m \in Node \ {n} : processor'.node_map[m] = processor.node_map[m]
      BY <1>1, <2>1, <2>5 DEF Statement
    <3>2. \A m \in Node : Holds(m, i) => Holds(m, i)'
      BY <2>5, <3>1 DEF Holds, BeingErased
    <3>. QED BY <1>2, <3>1, <3>2
  <2>. QED BY <2>1, <2>3, <2>4, <2>5 DEF Statement
<1>8. CASE UNCHANGED <<processor, timeout>>
  BY <1>8 DEF KeepsOwner, Orphan, Holds, BeingErased
<1>. QED BY <1>0, <1>3, <1>4, <1>5, <1>6, <1>7, <1>8 DEF Kind, CallerStep, NodeTimeoutStep

\* A row that is being processed keeps a node, with callbacks for other nodes
\* between the statements of nc_node_timeout (mandel_server.cpp:69-121): what
\* orphans a row is that its node asks again, or a callback that meets the
\* timeout of its own node.
THEOREM OwnersKeptByTimeouts == Spec => RowsKeepOwners
<1>1. ServerInv /\ [Next]_vars =>
        [~overlapped' =>
           \A i \in Row : Orphan(i)' => \/ Orphan(i)
                                       \/ \E n \in Node : /\ Holds(n, i)
                                                          /\ processor'.node_map[n] \in Row \ {i}]_vars
  BY OwnersStay DEF KeepsOwner
<1>. QED BY <1>1, ServerInvariant, PTL DEF Spec, RowsKeepOwners

\* A finished job stays finished whatever callback comes, for every state of
\* the processor: what NCServerProofs!QuitsWhenDone asks of a processor.
LEMMA JobStaysDone ==
  ASSUME NEW p \in Processor, nc_is_job_done(p), NEW n \in Node
  PROVE  /\ nc_is_job_done(nc_node_timeout(p, n))
         /\ \A o \in nc_get_new_data(p, n) : nc_is_job_done(o.processor)
         /\ \A result : nc_is_job_done(nc_process_result(p, n, result))
<1>1. nc_is_job_done(nc_node_timeout(p, n))
  BY DEF nc_node_timeout, nc_is_job_done
<1>2. ASSUME NEW o \in nc_get_new_data(p, n) PROVE nc_is_job_done(o.processor)
  BY NewDataOutcome DEF nc_is_job_done
<1>3. ASSUME NEW result PROVE nc_process_result(p, n, result) = p
  BY DEF nc_process_result, nc_is_job_done, Mapped, Processor
<1>. QED BY <1>1, <1>2, <1>3

-----------------------------------------------------------------------------
(* The processor implements JobBoard *)

\* Row i is claimed by n.
Acts(n, i) == Holds(n, i) /\ processor.mandel_job[i] = "Processing"

LEMMA ClaimedRows ==
  ASSUME TypeOK, TypeOK', NEW n \in Node
  PROVE  /\ Claimed[n] \in Row \cup {NoRow} /\ Claimed'[n] \in Row \cup {NoRow}
         /\ \A i \in Row : Claimed[n] = i <=> Acts(n, i)
         /\ \A i \in Row : Claimed'[n] = i <=> Acts(n, i)'
<1>1. Claimed[n] \in Row \cup {NoRow} /\ \A i \in Row : Claimed[n] = i <=> Acts(n, i)
  BY RowFacts DEF Claimed, Acts, Holds, Mapped, TypeOK, Processor
<1>2. Claimed'[n] \in Row \cup {NoRow} /\ \A i \in Row : Claimed'[n] = i <=> Acts(n, i)'
  BY RowFacts DEF Claimed, Acts, Holds, Mapped, TypeOK, Processor
<1>. QED BY <1>1, <1>2

\* The board if only n claims another row, or none.
LEMMA ClaimMoves ==
  ASSUME TypeOK, TypeOK', NEW n \in Node, NEW u \in Row \cup {NoRow},
         \A m \in Node \ {n} : \A i \in Row : Acts(m, i)' <=> Acts(m, i),
         \A i \in Row : Acts(n, i)' <=> i = u
  PROVE  Claimed' = [Claimed EXCEPT ![n] = u]
<1>1. \A m \in Node : Claimed'[m] = IF m = n THEN u ELSE Claimed[m]
  BY ClaimedRows, RowFacts
<1>2. Claimed' = [m \in Node |-> Claimed'[m]] /\ Claimed = [m \in Node |-> Claimed[m]]
  BY DEF Claimed
<1>. HIDE DEF Claimed
<1>. QED BY <1>1, <1>2

LEMMA ClaimsStay ==
  ASSUME TypeOK, TypeOK', \A m \in Node : \A i \in Row : Acts(m, i)' <=> Acts(m, i)
  PROVE  Claimed' = Claimed
<1>1. \A m \in Node : Claimed'[m] = Claimed[m]
  BY ClaimedRows, RowFacts
<1>2. Claimed' = [m \in Node |-> Claimed'[m]] /\ Claimed = [m \in Node |-> Claimed[m]]
  BY DEF Claimed
<1>. HIDE DEF Claimed
<1>. QED BY <1>1, <1>2

LEMMA BoardSteps ==
  ASSUME ServerInv, TypeOK', [Next]_vars, ~overlapped'
  PROVE  Board!Next \/ UNCHANGED Board!board
<1>0. ~overlapped /\ Kind /\ TypeOK
  BY Kinds DEF ServerInv
<1>1. /\ processor.node_map \in [Node -> Row \cup {NoRow}]
      /\ processor.mandel_job \in [Row -> JobStatus]
  BY <1>0 DEF TypeOK, Processor
<1>2. \A i \in Row : \A n, m \in Node :
        /\ Holds(n, i) => processor.mandel_job[i] # "UnProcessed"
        /\ Holds(n, i) /\ Holds(m, i) => n = m
  BY <1>0 DEF ServerInv, OwnerInv
<1>. USE RowFacts
<1>3. ASSUME UNCHANGED caller,
             \A i \in Row : processor'.mandel_job[i] = "Done" <=> processor.mandel_job[i] = "Done"
      PROVE  DoneRows' = DoneRows /\ Published' = Published
  BY <1>3 DEF DoneRows, Published, caller
<1>4. ASSUME NEW n \in Node, NEW i \in Row, Hands(n, i) PROVE Board!Next
  <2>1. /\ \A m \in Node : processor'.node_map[m] = IF m = n THEN i ELSE processor.node_map[m]
        /\ \A j \in Row : processor'.mandel_job[j] = IF j = i THEN "Processing" ELSE processor.mandel_job[j]
        /\ \A m \in Node : BeingErased(m)' <=> BeingErased(m)
        /\ processor.mandel_job[i] = "UnProcessed" /\ ~BeingErased(n) /\ UNCHANGED caller
    BY <1>1, <1>4 DEF Hands, BeingErased, Free
  <2>2. \A m \in Node : ~Acts(m, i) /\ (m # n => ~Acts(m, i)')
    BY <1>2, <2>1 DEF Acts, Holds
  <2>3. \A m \in Node \ {n} : \A j \in Row : Acts(m, j)' <=> Acts(m, j)
    BY <2>1, <2>2 DEF Acts, Holds
  <2>4. \A j \in Row : Acts(n, j)' <=> j = i
    BY <2>1 DEF Acts, Holds
  <2>5. Claimed' = [Claimed EXCEPT ![n] = i]
    BY <1>0, <2>3, <2>4, ClaimMoves
  <2>6. i \notin DoneRows /\ \A m \in Node : Claimed[m] # i
    BY <1>0, <2>1, <2>2, ClaimedRows DEF DoneRows
  <2>7. Board!Claim(n, i)
    BY <1>3, <2>1, <2>5, <2>6 DEF Board!Claim
  <2>. QED BY <2>7 DEF Board!Next
<1>5. ASSUME NEW n \in Node, Completes(n) PROVE Board!Next
  <2>. DEFINE i == processor.node_map[n]
  <2>1. /\ i \in Row /\ processor'.node_map = processor.node_map
        /\ \A j \in Row : processor'.mandel_job[j] = IF j = i THEN "Done" ELSE processor.mandel_job[j]
        /\ \A m \in Node : BeingErased(m)' <=> BeingErased(m)
        /\ processor.mandel_job[i] = "Processing" /\ ~BeingErased(n) /\ UNCHANGED caller
    BY <1>1, <1>5 DEF Completes, BeingErased, Free
  <2>2. Holds(n, i) /\ Acts(n, i) /\ Claimed[n] = i
    BY <1>0, <2>1, ClaimedRows DEF Acts, Holds
  <2>3. \A m \in Node \ {n} : ~Holds(m, i)
    BY <1>2, <2>1, <2>2
  <2>4. \A m \in Node \ {n} : \A j \in Row : Acts(m, j)' <=> Acts(m, j)
    BY <2>1, <2>3 DEF Acts, Holds
  <2>5. \A j \in Row : Acts(n, j)' <=> j = NoRow
    BY <2>1 DEF Acts, Holds
  <2>6. Claimed' = [Claimed EXCEPT ![n] = NoRow]
    BY <1>0, <2>4, <2>5, ClaimMoves
  <2>7. DoneRows' = DoneRows \cup {Claimed[n]} /\ Published' = Published
    BY <2>1, <2>2 DEF DoneRows, Published, caller
  <2>8. Board!Complete(n)
    BY <2>1, <2>2, <2>6, <2>7 DEF Board!Complete
  <2>. QED BY <2>8 DEF Board!Next
<1>6. ASSUME NEW n \in Node, UNCHANGED caller, Claimed[n] # NoRow,
             \A j \in Row : processor'.mandel_job[j] = "Done" <=> processor.mandel_job[j] = "Done",
             \A m \in Node \ {n} : \A j \in Row : Acts(m, j)' <=> Acts(m, j),
             \A j \in Row : ~Acts(n, j)'
      PROVE  Board!Next
  <2>1. Claimed' = [Claimed EXCEPT ![n] = NoRow]
    BY <1>0, <1>6, ClaimMoves
  <2>2. Board!Release(n)
    BY <1>3, <1>6, <2>1 DEF Board!Release
  <2>. QED BY <2>2 DEF Board!Next
<1>7. ASSUME UNCHANGED caller,
             \A j \in Row : processor'.mandel_job[j] = "Done" <=> processor.mandel_job[j] = "Done",
             \A m \in Node : \A j \in Row : Acts(m, j)' <=> Acts(m, j)
      PROVE  UNCHANGED Board!board
  BY <1>0, <1>3, <1>7, ClaimsStay DEF Board!board
<1>8. ASSUME NEW n \in Node, NodeTimeout(n) PROVE Board!Next \/ UNCHANGED Board!board
  <2>1. /\ timeout = {} /\ timeout' = {} /\ UNCHANGED caller
        /\ \A m \in Node : processor'.node_map[m] = IF m = n THEN NoRow ELSE processor.node_map[m]
        /\ \A j \in Row : processor'.mandel_job[j] =
             IF j = processor.node_map[n] /\ processor.mandel_job[j] = "Processing"
             THEN "UnProcessed" ELSE processor.mandel_job[j]
    BY <1>0, <1>1, <1>8, TimeoutFacts
  <2>2. /\ \A j \in Row : processor'.mandel_job[j] = "Done" <=> processor.mandel_job[j] = "Done"
        /\ \A j \in Row : ~Acts(n, j)'
    BY <2>1 DEF Acts, Holds
  <2>3. \A m \in Node \ {n} : \A j \in Row : Holds(m, j) => j # processor.node_map[n]
    BY <1>2, <2>1 DEF Holds, BeingErased
  <2>4. \A m \in Node \ {n} : \A j \in Row : Acts(m, j)' <=> Acts(m, j)
    BY <2>1, <2>3 DEF Acts, Holds, BeingErased
  <2>5. Claimed[n] = NoRow => \A j \in Row : ~Acts(n, j)
    BY <1>0, ClaimedRows
  <2>. QED BY <1>6, <1>7, <2>1, <2>2, <2>4, <2>5
<1>9. ASSUME NEW n \in Node, TimeoutFindsRow(n) PROVE UNCHANGED Board!board
  <2>1. /\ timeout = {} /\ UNCHANGED <<processor, caller>>
        /\ timeout' = {[node |-> n, row |-> processor.node_map[n], next |-> "test"]}
    BY <1>0, <1>9, TimeoutFacts
  <2>2. \A m \in Node : \A j \in Row : Acts(m, j)' <=> Acts(m, j)
    BY <2>1 DEF Acts, Holds, BeingErased
  <2>. QED BY <1>7, <2>1, <2>2
<1>10. ASSUME NEW n \in Node, TimeoutTestsRow(n) \/ TimeoutReopensRow(n) \/ TimeoutErases(n)
       PROVE  Board!Next \/ UNCHANGED Board!board
  <2>1. PICK t \in Timeout : Statement(n, t)
    BY <1>0, <1>10, StatementFacts
  <2>2. /\ t.row \in Row /\ processor.node_map[n] = t.row
        /\ t.next = "reopen" => processor.mandel_job[t.row] = "Processing"
    BY <1>0, <2>1 DEF Statement, ServerInv, TimeoutInv, Timeout
  <2>3. CASE t.next = "test"
    <3>1. /\ UNCHANGED <<processor, caller>> /\ timeout = {t}
          /\ timeout' = {[node |-> n, row |-> t.row,
                          next |-> IF processor.mandel_job[t.row] = "Processing" THEN "reopen" ELSE "erase"]}
      BY <2>1, <2>3 DEF Statement
    <3>2. \A m \in Node : \A j \in Row : Acts(m, j)' <=> Acts(m, j)
      BY <2>2, <2>3, <3>1 DEF Acts, Holds, BeingErased
    <3>. QED BY <1>7, <3>1, <3>2
  <2>4. CASE t.next = "reopen"
    <3>1. /\ timeout = {t} /\ t.node = n /\ UNCHANGED caller
          /\ timeout' = {[node |-> n, row |-> t.row, next |-> "erase"]}
          /\ processor'.node_map = processor.node_map
          /\ \A j \in Row : processor'.mandel_job[j] = IF j = t.row THEN "UnProcessed" ELSE processor.mandel_job[j]
      BY <1>1, <2>1, <2>4 DEF Statement
    <3>2. Holds(n, t.row) /\ Acts(n, t.row)
      BY <2>2, <2>4, <3>1 DEF Acts, Holds, BeingErased
    <3>3. \A m \in Node \ {n} : ~Holds(m, t.row)
      BY <1>2, <2>2, <3>2
    <3>4. \A m \in Node \ {n} : \A j \in Row : Acts(m, j)' <=> Acts(m, j)
      BY <2>4, <3>1, <3>3 DEF Acts, Holds, BeingErased
    <3>5. \A j \in Row : ~Acts(n, j)'
      BY <3>1 DEF Acts, Holds, BeingErased
    <3>6. Claimed[n] # NoRow
      BY <1>0, <2>2, <3>2, ClaimedRows
    <3>7. \A j \in Row : processor'.mandel_job[j] = "Done" <=> processor.mandel_job[j] = "Done"
      BY <2>2, <2>4, <3>1
    <3>. QED BY <1>6, <3>1, <3>4, <3>5, <3>6, <3>7
  <2>5. CASE t.next = "erase"
    <3>1. /\ timeout = {t} /\ t.node = n /\ timeout' = {} /\ UNCHANGED caller
          /\ processor'.mandel_job = processor.mandel_job
          /\ \A m \in Node : processor'.node_map[m] = IF m = n THEN NoRow ELSE processor.node_map[m]
      BY <1>1, <2>1, <2>5 DEF Statement
    <3>2. \A m \in Node : \A j \in Row : Acts(m, j)' <=> Acts(m, j)
      BY <2>5, <3>1 DEF Acts, Holds, BeingErased
    <3>. QED BY <1>7, <3>1, <3>2
  <2>. QED BY <2>1, <2>3, <2>4, <2>5 DEF Statement
<1>11. CASE UNCHANGED <<processor, timeout>>
  <2>1. Claimed' = Claimed /\ DoneRows' = DoneRows
    BY <1>11 DEF Claimed, BeingErased, DoneRows
  <2>2. CASE UNCHANGED <<saved, gave_up>> \/ (UNCHANGED saved /\ saved = {})
    BY <2>1, <2>2 DEF Published, Board!board
  <2>3. CASE SaveData /\ gave_up
    <3>1. Board!GiveUp
      BY <2>1, <2>3 DEF SaveData, Published, Board!GiveUp
    <3>. QED BY <3>1 DEF Board!Next
  <2>4. CASE SaveData /\ ~gave_up
    <3>1. DoneRows = Row
      BY <1>0, <2>4 DEF SaveData, ServerInv, QuitInv, nc_is_job_done, DoneRows
    <3>2. Board!Publish
      BY <2>1, <2>4, <3>1 DEF SaveData, Published, Board!Publish
    <3>. QED BY <3>2 DEF Board!Next
  <2>5. CASE ~CallerStep /\ UNCHANGED caller
    BY <2>2, <2>5 DEF caller
  <2>. QED BY <1>0, <1>11, <2>2, <2>3, <2>4, <2>5
       DEF Kind, CallerStep, JobFoundDone, AcceptFails, NodeTimeout, NodeTimeoutStep, Hands, Completes,
           TimeoutFindsRow, TimeoutTestsRow, TimeoutReopensRow, TimeoutErases
<1>. QED BY <1>0, <1>4, <1>5, <1>8, <1>9, <1>10, <1>11 DEF Kind, CallerStep, NodeTimeoutStep

\* The processor implements JobBoard: under the mapping of MandelServer each
\* step is a step of the board or leaves it unchanged, as long as no callback
\* meets the timeout of its own node (mandel_server.cpp:31-121); what the caller
\* saves is the whole unless nc_accept threw (nc_server.cpp:131-147).
THEOREM RefinesJobBoard == Spec => ImplementsJobBoard
<1>1. Init => Board!Init
  <2>. SUFFICES ASSUME Init PROVE Board!Init
    OBVIOUS
  <2>1. Claimed = [n \in Node |-> NoRow]
    BY DEF Init, NewProcessor, Claimed, Mapped
  <2>2. DoneRows = {} /\ Published = "nothing"
    BY DEF Init, NewProcessor, DoneRows, Published
  <2>. QED BY <2>1, <2>2 DEF Board!Init
<1>2. ServerInv /\ TypeOK' /\ [Next]_vars => [Board!Next \/ overlapped']_(Board!board)
  BY BoardSteps
<1>. QED BY <1>1, <1>2, ServerInvariant, TypeCorrect, PTL DEF Spec, ImplementsJobBoard
=============================================================================
