----------------------------- MODULE NCHeartbeat ------------------------------
(***************************************************************************)
(* Heartbeats in time: nc_send_heartbeat of each node, the part of         *)
(* nc_handle_node that stamps its arrival, and nc_check_heartbeat, with    *)
(* the clock they read.  NCServer abstracts an age to fresh or stale and   *)
(* lets it change at any moment; here is when it does.                     *)
(*                                                                         *)
(* Time goes in ticks, Second of them a second.  A sleep takes at least    *)
(* its length; everything between two sleeps of a thread takes at most     *)
(* Delay ticks.  Of a time_point only its age is kept.                     *)
(***************************************************************************)
EXTENDS NCConfig, FiniteSets

CONSTANTS Node,
          ConfigFiles,  \* the files the hosts may have
          Second,       \* ticks per second
          Delay,        \* what a round takes beyond its sleep, in ticks
          MaxAge        \* bound: an age of more ticks counts as this one

ASSUME FilesAssumption == \A json \in ConfigFiles : json.heartbeat_timeout \subseteq Nat

\* A round of a thread takes less than half a second beyond its sleep.
ASSUME ClockAssumption == /\ Second \in Nat /\ Delay \in Nat
                          /\ 2 * Delay < Second
                          /\ MaxAge \in Nat

VARIABLES server_timeout, \* heartbeat_timeout in the server's configuration
          node_timeout,   \* and in each node's
          quit,           \* quit of the server
          beat_pc,        \* where nc_send_heartbeat of each node is
          beat_clock,     \* how long its present round has taken
          request,        \* which request of the node the server has stamped, not stored
          stamp,          \* the age of that stamp
          node_time,      \* all_nodes: {} or the age of the stored time
          check_pc,       \* where nc_check_heartbeat is
          check_clock,    \* how long its present round has taken
          current_time,   \* the age of what it last read from the clock
          unchecked,      \* the nodes its loop has still to visit
          missed,         \* history: nodes with a failed heartbeat
          timed_out,      \* history: nodes nc_node_timeout was ever called for
          noticed         \* history: those it was called for since their last heartbeat

configVars == <<server_timeout, node_timeout>>
beatVars == <<beat_pc, beat_clock, missed>>
requestVars == <<request, stamp, node_time>>
checkVars == <<check_pc, check_clock, current_time, unchecked, timed_out>>
vars == <<configVars, quit, beatVars, requestVars, checkVars, noticed>>

BeatPC == {"off", "sleep", "send", "answer", "gone"}
CheckPC == {"sleep", "lock", "check", "ended"}
Age == 0 .. MaxAge

Configs == UNION {nc_config_from_json(json) : json \in ConfigFiles}

Init ==
  /\ \E c \in Configs : server_timeout = c.heartbeat_timeout
  /\ node_timeout \in [Node -> {c.heartbeat_timeout : c \in Configs}]
  /\ quit = FALSE
  /\ beat_pc = [n \in Node |-> "off"] /\ beat_clock = [n \in Node |-> 0]
  /\ request = [n \in Node |-> "none"] /\ stamp = [n \in Node |-> 0]
  /\ node_time = [n \in Node |-> {}]
  /\ check_pc = "sleep" /\ check_clock = 0 /\ current_time = 0 /\ unchecked = {}
  /\ missed = {} /\ timed_out = {} /\ noticed = {}

ServerMutexFree == check_pc # "check"
Alive(n) == beat_pc[n] \notin {"off", "gone"}

-----------------------------------------------------------------------------
(* Time *)

\* When a sleep ends and when the round it belongs to must have ended.
Awake(clock, timeout) == clock >= timeout * Second
Due(clock, timeout) == clock >= timeout * Second + Delay

Older(age) == IF age < MaxAge THEN age + 1 ELSE age

\* A tick of the clock, unless somebody has to act first.
Tick ==
  /\ \A n \in Node : /\ Alive(n) => ~Due(beat_clock[n], node_timeout[n])
                     /\ request[n] # "none" => stamp[n] < Delay
  /\ check_pc # "ended" => ~Due(check_clock, server_timeout)
  /\ beat_clock' = [n \in Node |-> IF Alive(n) THEN beat_clock[n] + 1 ELSE 0]
  /\ stamp' = [n \in Node |-> IF request[n] # "none" THEN stamp[n] + 1 ELSE 0]
  /\ node_time' = [n \in Node |-> {Older(age) : age \in node_time[n]}]
  /\ check_clock' = IF check_pc # "ended" THEN check_clock + 1 ELSE 0
  /\ current_time' = Older(current_time)
  /\ UNCHANGED <<configVars, quit, beat_pc, request, check_pc, unchecked,
                 missed, timed_out, noticed>>

-----------------------------------------------------------------------------
(* The nodes *)

\* nc_run starts the heartbeat thread before it sends Init.
Start(n) ==
  /\ beat_pc[n] = "off"
  /\ beat_pc' = [beat_pc EXCEPT ![n] = "sleep"]
  /\ UNCHANGED <<configVars, quit, beat_clock, requestVars, checkVars, missed, noticed>>

Wake(n) ==
  /\ beat_pc[n] = "sleep"
  /\ Awake(beat_clock[n], node_timeout[n])
  /\ beat_pc' = [beat_pc EXCEPT ![n] = "send"]
  /\ UNCHANGED <<configVars, quit, beat_clock, requestVars, checkVars, missed, noticed>>

NextRound(n) ==
  /\ beat_pc' = [beat_pc EXCEPT ![n] = "sleep"]
  /\ beat_clock' = [beat_clock EXCEPT ![n] = 0]

\* HeartbeatOK or InvalidNodeID: back to the top of the loop.
AnswerArrives(n) ==
  /\ beat_pc[n] = "answer"
  /\ request[n] # "Heartbeat"
  /\ NextRound(n)
  /\ UNCHANGED <<configVars, quit, requestVars, checkVars, missed, noticed>>

\* The heartbeat or its answer is lost: the loop continues with the next full sleep.
HeartbeatFails(n) ==
  /\ beat_pc[n] \in {"send", "answer"}
  /\ NextRound(n)
  /\ missed' = missed \cup {n}
  /\ UNCHANGED <<configVars, quit, requestVars, checkVars, noticed>>

\* The node crashes, or ends for reasons of its own.
Die(n) ==
  /\ Alive(n)
  /\ beat_pc' = [beat_pc EXCEPT ![n] = "gone"]
  /\ UNCHANGED <<configVars, quit, beat_clock, requestVars, checkVars, missed, noticed>>

-----------------------------------------------------------------------------
(* nc_handle_node *)

\* nc_register_new_node and nc_update_node_time read the clock before they wait
\* for server_mutex.  The node has one exchange at a time.
Stamp(n, type) ==
  /\ request' = [request EXCEPT ![n] = type]
  /\ stamp' = [stamp EXCEPT ![n] = 0]
  /\ UNCHANGED node_time

InitArrives(n) ==
  /\ Alive(n) /\ ~quit
  /\ request[n] = "none"
  /\ Stamp(n, "Init")
  /\ UNCHANGED <<configVars, quit, beatVars, checkVars, noticed>>

\* The node id is looked up under server_mutex, the clock read some time after
\* that; at once is the worst case, as it makes the oldest stamp.
HeartbeatArrives(n) ==
  /\ beat_pc[n] = "send"
  /\ request[n] = "none"
  /\ \/ quit /\ beat_pc' = [beat_pc EXCEPT ![n] = "gone"] /\ UNCHANGED requestVars
     \/ /\ ~quit /\ ServerMutexFree
        /\ beat_pc' = [beat_pc EXCEPT ![n] = "answer"]
        /\ IF node_time[n] = {} THEN UNCHANGED requestVars ELSE Stamp(n, "Heartbeat")
  /\ UNCHANGED <<configVars, quit, beat_clock, missed, checkVars, noticed>>

Stored(n) ==
  /\ request' = [request EXCEPT ![n] = "none"]
  /\ stamp' = [stamp EXCEPT ![n] = 0]

\* An entry that exists keeps its time.
nc_register_new_node(n) ==
  /\ request[n] = "Init"
  /\ ServerMutexFree
  /\ node_time' = [node_time EXCEPT ![n] = IF @ = {} THEN {stamp[n]} ELSE @]
  /\ Stored(n)
  /\ UNCHANGED <<configVars, quit, beatVars, checkVars, noticed>>

\* Mutant of the next definition: the new time is added to the old one.
AddNodeTime(n) ==
  /\ request[n] = "Heartbeat"
  /\ ServerMutexFree
  /\ node_time' = [node_time EXCEPT ![n] = @ \cup {stamp[n]}]
  /\ Stored(n)
  /\ noticed' = noticed \ {n}
  /\ UNCHANGED <<configVars, quit, beatVars, checkVars>>

nc_update_node_time(n) ==
  /\ request[n] = "Heartbeat"
  /\ ServerMutexFree
  /\ node_time' = [node_time EXCEPT ![n] = {stamp[n]}]
  /\ Stored(n)
  /\ noticed' = noticed \ {n}
  /\ UNCHANGED <<configVars, quit, beatVars, checkVars>>

\* Another client thread finds the job done.
Quit ==
  /\ ~quit
  /\ quit' = TRUE
  /\ UNCHANGED <<configVars, beatVars, requestVars, checkVars, noticed>>

-----------------------------------------------------------------------------
(* nc_check_heartbeat *)

\* Mutant of the next definition: the clock is read at the start of the thread only.
CheckWakesWithOldTime ==
  /\ check_pc = "sleep"
  /\ Awake(check_clock, server_timeout)
  /\ check_pc' = IF quit THEN "ended" ELSE "lock"
  /\ UNCHANGED <<configVars, quit, beatVars, requestVars, check_clock, current_time, unchecked,
                 timed_out, noticed>>

\* The clock is read before the lock is taken.
CheckWakes ==
  /\ check_pc = "sleep"
  /\ Awake(check_clock, server_timeout)
  /\ check_pc' = IF quit THEN "ended" ELSE "lock"
  /\ current_time' = 0
  /\ UNCHANGED <<configVars, quit, beatVars, requestVars, check_clock, unchecked,
                 timed_out, noticed>>

CheckLocks ==
  /\ check_pc = "lock"
  /\ check_pc' = "check"
  /\ unchecked' = {n \in Node : node_time[n] # {}}
  /\ UNCHANGED <<configVars, quit, beatVars, requestVars, check_clock, current_time,
                 timed_out, noticed>>

\* Mutant of the next definition: >= for >.
TooOldAtOnce(n) ==
  \E age \in node_time[n] : /\ age >= current_time
                            /\ (age - current_time) \div Second >= server_timeout

\* duration_cast cuts current_time - node_time to whole seconds; the difference
\* is negative for a heartbeat that came while this thread waited for the lock.
TooOld(n) ==
  \E age \in node_time[n] : /\ age >= current_time
                            /\ (age - current_time) \div Second > server_timeout

CheckNode(n) ==
  /\ check_pc = "check"
  /\ n \in unchecked
  /\ unchecked' = unchecked \ {n}
  /\ timed_out' = IF TooOld(n) THEN timed_out \cup {n} ELSE timed_out
  /\ noticed' = IF TooOld(n) THEN noticed \cup {n} ELSE noticed
  /\ UNCHANGED <<configVars, quit, beatVars, requestVars, check_pc, check_clock, current_time>>

CheckUnlocks ==
  /\ check_pc = "check"
  /\ unchecked = {}
  /\ check_pc' = IF quit THEN "ended" ELSE "sleep"
  /\ check_clock' = 0
  /\ UNCHANGED <<configVars, quit, beatVars, requestVars, current_time, unchecked,
                 timed_out, noticed>>

Next == \/ Tick \/ Quit
        \/ CheckWakes \/ CheckLocks \/ CheckUnlocks
        \/ \E n \in Node : \/ Start(n) \/ Wake(n) \/ AnswerArrives(n) \/ HeartbeatFails(n) \/ Die(n)
                           \/ InitArrives(n) \/ HeartbeatArrives(n)
                           \/ nc_register_new_node(n) \/ nc_update_node_time(n)
                           \/ CheckNode(n)

Spec == Init /\ [][Next]_vars

-----------------------------------------------------------------------------
(* Properties *)

TypeOK ==
  /\ server_timeout \in Nat /\ node_timeout \in [Node -> Nat]
  /\ quit \in BOOLEAN
  /\ beat_pc \in [Node -> BeatPC] /\ beat_clock \in [Node -> Age]
  /\ request \in [Node -> {"none", "Init", "Heartbeat"}] /\ stamp \in [Node -> 0 .. Delay]
  /\ node_time \in [Node -> {{}} \cup {{age} : age \in Age}]
  /\ check_pc \in CheckPC /\ check_clock \in Age /\ current_time \in Age
  /\ unchecked \in SUBSET Node
  /\ missed \in SUBSET Node /\ timed_out \in SUBSET Node /\ noticed \in SUBSET Node

\* Node and server sleep for the same time, so that a heartbeat is always a
\* little older than that when the next one comes.  Still a node that lives,
\* whose heartbeats get through and whose timeout is not longer than the
\* server's, never times out: the row it works on is not given away.
NoFalseTimeout ==
  \A n \in timed_out : beat_pc[n] = "gone" \/ n \in missed \/ node_timeout[n] > server_timeout

\* A node the server has not heard of for two timeouts and two seconds is
\* reported to the processor, which can give its row to another node.
SilentNodesNoticed ==
  \A n \in Node : \A age \in node_time[n] :
    age >= (2 * server_timeout + 2) * Second /\ ~quit => n \in noticed
=============================================================================
