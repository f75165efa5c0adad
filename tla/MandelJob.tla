------------------------------ MODULE MandelJob ------------------------------
(***************************************************************************)
(* The callbacks of the example's MandelServerProcessor as operators on    *)
(* one record, the processor object.  A row of the image is a number in    *)
(* Row.  A payload is abstracted to the row it speaks of: what the server  *)
(* hands out is the index of a row, what a node sends back is the line it  *)
(* computed from that index.                                               *)
(***************************************************************************)
EXTENDS Naturals

CONSTANTS Node,    \* the node ids that ever contact the server
          Height   \* mandel_data.height, the number of rows

ASSUME HeightAssumption == Height \in Nat \ {0}

Row == 0 .. Height - 1
NoRow == Height                     \* "no entry in node_map"

RowData(i) == [row |-> i]           \* u32_to_vec_u8(i)
NoMoreRows == [row |-> Height]      \* {255, 255, 255, 255}: out of range for every image
Line(i) == [line |-> i]             \* the mandel_data.width values of row i
EmptyLine == [line |-> Height]      \* a result of any other size
Blank == Height                     \* the zeros of an image row nothing was copied to

RowPayload == {RowData(i) : i \in Row} \cup {NoMoreRows}
LinePayload == {Line(i) : i \in Row} \cup {EmptyLine}
Payload == RowPayload \cup LinePayload

JobStatus == {"UnProcessed", "Processing", "Done"}

Processor == [mandel_job : [Row -> JobStatus],
              mandel_image : [Row -> Row \cup {Blank}],
              node_map : [Node -> Row \cup {NoRow}]]

NewProcessor == [mandel_job |-> [i \in Row |-> "UnProcessed"],
                 mandel_image |-> [i \in Row |-> Blank],
                 node_map |-> [n \in Node |-> NoRow]]

-----------------------------------------------------------------------------
Mapped(p, n) == p.node_map[n] # NoRow                  \* node_map.contains(n)

\* Mutant: rows still being processed count as done.
JobDoneMeansHandedOut(p) == \A i \in Row : p.mandel_job[i] # "UnProcessed"

nc_is_job_done(p) == \A i \in Row : p.mandel_job[i] = "Done"

\* Mutants of the next definition: it keeps the node's entry, it also takes
\* back rows that are done, it leaves the row as it is.
TimeoutKeepsEntry(p, n) ==
  [p EXCEPT !.mandel_job = [i \in Row |-> IF i = p.node_map[n] /\ @[i] = "Processing"
                                          THEN "UnProcessed" ELSE @[i]]]
TimeoutReopensDone(p, n) ==
  [p EXCEPT !.mandel_job = [i \in Row |-> IF i = p.node_map[n] THEN "UnProcessed" ELSE @[i]],
            !.node_map[n] = NoRow]
TimeoutKeepsRow(p, n) == [p EXCEPT !.node_map[n] = NoRow]

\* The row a node holds goes back to the pool unless it is done; the entry of
\* the node goes either way.
nc_node_timeout(p, n) ==
  [mandel_job |-> [i \in Row |-> IF i = p.node_map[n] /\ p.mandel_job[i] = "Processing"
                                 THEN "UnProcessed" ELSE p.mandel_job[i]],
   mandel_image |-> p.mandel_image,
   node_map |-> [p.node_map EXCEPT ![n] = NoRow]]

\* Row i is being processed by node n.
Assigned(p, n, i) == [mandel_job |-> [p.mandel_job EXCEPT ![i] = "Processing"],
                      mandel_image |-> p.mandel_image,
                      node_map |-> [p.node_map EXCEPT ![n] = i]]

\* Mutant of the next definition: every row that is not done is handed out.
NewDataNotDone(p, n) ==
  LET pool == {i \in Row : p.mandel_job[i] # "Done"}
      first == {i \in pool : \A j \in pool : i <= j}
  IN  IF pool = {} THEN {[processor |-> p, data |-> NoMoreRows]}
      ELSE {[processor |-> Assigned(p, n, i), data |-> RowData(i)] : i \in first}

\* The outcomes of nc_get_new_data, always exactly one: the processor after
\* the call and the vector it returns.  The loop stops at the first
\* unprocessed row; a node that still holds a row just loses its entry for it.
nc_get_new_data(p, n) ==
  LET pool == {i \in Row : p.mandel_job[i] = "UnProcessed"}
      first == {i \in pool : \A j \in pool : i <= j}
  IN  IF pool = {} THEN {[processor |-> p, data |-> NoMoreRows]}
      ELSE {[processor |-> Assigned(p, n, i), data |-> RowData(i)] : i \in first}

\* Only the row in node_map counts, and only while it is being processed: the
\* row is done whatever the node sent, and a line of the right size is copied.
nc_process_result(p, n, result) ==
  LET i == p.node_map[n]
  IN  IF ~Mapped(p, n) \/ p.mandel_job[i] # "Processing" THEN p
      ELSE [mandel_job |-> [p.mandel_job EXCEPT ![i] = "Done"],
            mandel_image |-> IF result \in LinePayload \ {EmptyLine}
                             THEN [p.mandel_image EXCEPT ![i] = result.line]
                             ELSE p.mandel_image,
            node_map |-> p.node_map]

\* The node's side of the job (MandelNodeProcessor): a row index in range gives
\* its line, everything else the empty vector.
nc_process_data(data) ==
  IF data \in {RowData(i) : i \in Row} THEN Line(data.row) ELSE EmptyLine
=============================================================================
