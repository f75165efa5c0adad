-------------------------- MODULE NCHeartbeatProofs ---------------------------
(***************************************************************************)
(* NCHeartbeat, for any nodes, configuration files, length of a second and *)
(* delay within ClockAssumption.  Products of a timeout and Second are     *)
(* hidden behind Sleep, so that what is left is linear.                    *)
(***************************************************************************)
EXTENDS NCHeartbeat, TLAPS

\* How long a thread with this timeout sleeps, in ticks.
Sleep(timeout) == timeout * Second

LEMMA SleepFacts ==
  ASSUME NEW t \in Nat
  PROVE  /\ Sleep(t) \in Nat
         /\ \A u \in Nat : t <= u => Sleep(t) <= Sleep(u)
         /\ (2 * t + 2) * Second = 2 * Sleep(t) + 2 * Second
BY ClockAssumption DEF Sleep

LEMMA WakeFacts ==
  ASSUME NEW t \in Nat, NEW clock \in Nat
  PROVE  /\ Awake(clock, t) <=> clock >= Sleep(t)
         /\ Due(clock, t) <=> clock >= Sleep(t) + Delay
BY DEF Awake, Due, Sleep

\* duration_cast and the comparison with > together.
LEMMA WholeSeconds ==
  ASSUME NEW t \in Nat, NEW x \in Nat
  PROVE  x \div Second > t <=> x >= Sleep(t) + Second
BY ClockAssumption DEF Sleep

LEMMA ClockFacts == /\ Second \in Nat /\ Delay \in Nat /\ 2 * Delay < Second
                    /\ \A age \in Nat : Older(age) \in Nat /\ Older(age) <= age + 1
BY ClockAssumption DEF Older

-----------------------------------------------------------------------------
(* Types.  TypeOK of NCHeartbeat also bounds the ages by MaxAge; what       *)
(* follows needs only that they are natural numbers.                        *)

TimeType ==
  /\ server_timeout \in Nat /\ node_timeout \in [Node -> Nat]
  /\ quit \in BOOLEAN
  /\ beat_pc \in [Node -> BeatPC] /\ beat_clock \in [Node -> Nat]
  /\ request \in [Node -> {"none", "Init", "Heartbeat"}] /\ stamp \in [Node -> 0 .. Delay]
  /\ node_time \in [Node -> SUBSET Nat]
  /\ check_pc \in CheckPC /\ check_clock \in Nat /\ current_time \in Nat
  /\ unchecked \in SUBSET Node
  /\ missed \in SUBSET Node /\ timed_out \in SUBSET Node /\ noticed \in SUBSET Node

\* The timeout of every configuration is a number of seconds.
LEMMA ConfigType == \A c \in Configs : c.heartbeat_timeout \in Nat
<1>. SUFFICES ASSUME NEW json \in ConfigFiles, NEW c \in nc_config_from_json(json)
              PROVE  c.heartbeat_timeout \in Nat
  BY DEF Configs
<1>1. PICK d \in UNION {NCConfiguration(key) : key \in json.secret_key} :
        c.heartbeat_timeout = ValueOr(json.heartbeat_timeout, d.heartbeat_timeout)
  BY DEF nc_config_from_json
<1>2. d.heartbeat_timeout = DefaultTimeout
  <2>1. PICK key \in json.secret_key : d \in NCConfiguration(key)
    BY <1>1
  <2>. QED BY <2>1 DEF NCConfiguration
<1>3. CASE json.heartbeat_timeout = {}
  BY <1>1, <1>2, <1>3, TimeoutAssumption DEF ValueOr
<1>4. CASE json.heartbeat_timeout # {}
  <2>1. (CHOOSE v \in json.heartbeat_timeout : TRUE) \in json.heartbeat_timeout
    BY <1>4
  <2>2. c.heartbeat_timeout \in json.heartbeat_timeout
    BY <1>1, <1>4, <2>1 DEF ValueOr
  <2>. QED BY <2>2, FilesAssumption
<1>. QED BY <1>3, <1>4

LEMMA TypeInductive ==
  /\ Init => TimeType
  /\ TimeType /\ [Next]_vars => TimeType'
<1>1. ASSUME Init PROVE TimeType
  <2>1. server_timeout \in Nat /\ node_timeout \in [Node -> Nat]
    BY <1>1, ConfigType DEF Init
  <2>2. stamp \in [Node -> 0 .. Delay]
    BY <1>1, ClockFacts DEF Init
  <2>. QED BY <1>1, <2>1, <2>2 DEF Init, TimeType, BeatPC, CheckPC
<1>2. ASSUME TimeType, [Next]_vars PROVE TimeType'
  <2>. USE <1>2 DEF TimeType
  <2>1. CASE Tick
    <3>1. beat_clock' \in [Node -> Nat]
      BY <2>1 DEF Tick
    <3>2. node_time' \in [Node -> SUBSET Nat]
      BY <2>1, ClockFacts DEF Tick
    <3>3. check_clock' \in Nat /\ current_time' \in Nat
      BY <2>1, ClockFacts DEF Tick
    <3>4. stamp' \in [Node -> 0 .. Delay]
      BY <2>1, ClockFacts DEF Tick
    <3>. QED BY <2>1, <3>1, <3>2, <3>3, <3>4 DEF Tick, configVars
  <2>2. CASE Quit
    BY <2>2 DEF Quit, configVars, beatVars, requestVars, checkVars
  <2>3. CASE CheckWakes \/ CheckLocks \/ CheckUnlocks
    BY <2>3 DEF CheckWakes, CheckLocks, CheckUnlocks, CheckPC, configVars, beatVars, requestVars
  <2>4. ASSUME NEW n \in Node, Start(n) \/ Wake(n) \/ Die(n) PROVE TimeType'
    BY <2>4 DEF Start, Wake, Die, BeatPC, configVars, requestVars, checkVars
  <2>5. ASSUME NEW n \in Node, AnswerArrives(n) \/ HeartbeatFails(n) PROVE TimeType'
    BY <2>5 DEF AnswerArrives, HeartbeatFails, NextRound, BeatPC, configVars, requestVars, checkVars
  <2>6. ASSUME NEW n \in Node, InitArrives(n) \/ HeartbeatArrives(n) PROVE TimeType'
    <3>1. CASE InitArrives(n)
      BY <3>1, ClockFacts DEF InitArrives, Stamp, configVars, beatVars, checkVars
    <3>2. CASE HeartbeatArrives(n)
      <4>1. beat_pc' \in [Node -> BeatPC]
        BY <3>2 DEF HeartbeatArrives, BeatPC
      <4>2. UNCHANGED requestVars \/ Stamp(n, "Heartbeat")
        BY <3>2 DEF HeartbeatArrives
      <4>3. stamp' \in [Node -> 0 .. Delay] /\ UNCHANGED node_time
        BY <4>2, ClockFacts DEF Stamp, requestVars
      <4>4. request' \in [Node -> {"none", "Init", "Heartbeat"}]
        BY <4>2 DEF Stamp, requestVars
      <4>5. UNCHANGED <<configVars, quit, beat_clock, missed, checkVars, noticed>>
        BY <3>2 DEF HeartbeatArrives
      <4>. QED BY <4>1, <4>3, <4>4, <4>5 DEF configVars, checkVars
    <3>. QED BY <2>6, <3>1, <3>2
  <2>7. ASSUME NEW n \in Node, nc_register_new_node(n) \/ nc_update_node_time(n) PROVE TimeType'
    <3>1. /\ Stored(n) /\ noticed' \subseteq noticed
          /\ UNCHANGED <<configVars, quit, beatVars, checkVars>>
      BY <2>7 DEF nc_register_new_node, nc_update_node_time
    <3>2. stamp[n] \in Nat
      BY ClockFacts
    <3>3. node_time' \in [Node -> SUBSET Nat]
      BY <2>7, <3>2 DEF nc_register_new_node, nc_update_node_time
    <3>4. /\ stamp' \in [Node -> 0 .. Delay]
          /\ request' \in [Node -> {"none", "Init", "Heartbeat"}]
      BY <3>1, ClockFacts DEF Stored
    <3>. QED BY <3>1, <3>3, <3>4 DEF configVars, beatVars, checkVars
  <2>8. ASSUME NEW n \in Node, CheckNode(n) PROVE TimeType'
    BY <2>8 DEF CheckNode, configVars, beatVars, requestVars
  <2>9. CASE UNCHANGED vars
    BY <2>9 DEF vars, configVars, beatVars, requestVars, checkVars
  <2>. QED BY <2>1, <2>2, <2>3, <2>4, <2>5, <2>6, <2>7, <2>8, <2>9 DEF Next
<1>. QED BY <1>1, <1>2

\* A clock of a thread goes no further than its sleep and one delay.
ClocksFit ==
  /\ Sleep(server_timeout) + Delay <= MaxAge
  /\ \A n \in Node : Sleep(node_timeout[n]) + Delay <= MaxAge

\* The clock of a thread never passes its sleep and one delay, and all_nodes
\* (nc_server.hpp:85) holds at most one time of a node, of an age up to MaxAge: in
\* every instance whose MaxAge is not below the longest round.
THEOREM TypeCorrect ==
  ASSUME \A c \in Configs : Sleep(c.heartbeat_timeout) + Delay <= MaxAge
  PROVE  Spec => []TypeOK
<1>1. Init => TimeType /\ TypeOK /\ ClocksFit
  <2>. SUFFICES ASSUME Init PROVE TypeOK /\ ClocksFit
    BY TypeInductive
  <2>1. TimeType
    BY TypeInductive
  <2>2. \E config \in Configs : server_timeout = config.heartbeat_timeout
    BY DEF Init
  <2>3. \A n \in Node : \E config \in Configs : node_timeout[n] = config.heartbeat_timeout
    BY DEF Init
  <2>4. ClocksFit
    BY <2>2, <2>3 DEF ClocksFit
  <2>5. 0 \in Age /\ 0 \in 0 .. Delay
    BY ClockAssumption DEF Age
  <2>6. node_time \in [Node -> {{}} \cup {{age} : age \in Age}]
    BY DEF Init
  <2>. QED BY <2>1, <2>4, <2>5, <2>6 DEF Init, TypeOK, TimeType
<1>2. ASSUME TimeType, TypeOK, ClocksFit, [Next]_vars PROVE TypeOK' /\ ClocksFit'
  <2>1. TimeType'
    BY <1>2, TypeInductive
  <2>2. UNCHANGED configVars
    BY <1>2 DEF Next, Tick, Quit, CheckWakes, CheckLocks, CheckUnlocks, Start, Wake, AnswerArrives,
                HeartbeatFails, Die, InitArrives, HeartbeatArrives, nc_register_new_node,
                nc_update_node_time, CheckNode, vars
  <2>3. ClocksFit'
    BY <1>2, <2>2 DEF ClocksFit, configVars
  <2>4. Sleep(server_timeout) \in Nat /\ \A n \in Node : Sleep(node_timeout[n]) \in Nat
    BY <1>2, SleepFacts DEF TimeType
  <2>5. 0 .. Delay \subseteq Age /\ 0 \in Age
    BY <1>2, <2>4, ClockAssumption DEF ClocksFit, Age
  <2>6. CASE Tick
    <3>1. \A age \in Age : Older(age) \in Age
      BY ClockAssumption DEF Older, Age
    <3>2. ASSUME NEW n \in Node PROVE beat_clock'[n] \in Age
      <4>1. beat_clock'[n] = IF Alive(n) THEN beat_clock[n] + 1 ELSE 0
        BY <2>6 DEF Tick
      <4>2. Alive(n) => beat_clock[n] < Sleep(node_timeout[n]) + Delay
        BY <1>2, <2>4, <2>6, WakeFacts, ClockAssumption DEF Tick, TimeType
      <4>3. Sleep(node_timeout[n]) + Delay <= MaxAge /\ beat_clock[n] \in Nat
        BY <1>2 DEF ClocksFit, TimeType
      <4>. QED BY <2>4, <2>5, <4>1, <4>2, <4>3, ClockAssumption DEF Age
    <3>3. check_clock' \in Age
      <4>1. check_pc # "ended" => check_clock < Sleep(server_timeout) + Delay
        BY <1>2, <2>4, <2>6, WakeFacts, ClockAssumption DEF Tick, TimeType
      <4>2. Sleep(server_timeout) + Delay <= MaxAge /\ check_clock \in Nat
        BY <1>2 DEF ClocksFit, TimeType
      <4>3. check_clock' = IF check_pc # "ended" THEN check_clock + 1 ELSE 0
        BY <2>6 DEF Tick
      <4>. QED BY <2>4, <2>5, <4>1, <4>2, <4>3, ClockAssumption DEF Age
    <3>4. ASSUME NEW n \in Node PROVE node_time'[n] \in {{}} \cup {{age} : age \in Age}
      <4>1. node_time'[n] = {Older(age) : age \in node_time[n]}
        BY <2>6 DEF Tick
      <4>2. CASE node_time[n] = {}
        BY <4>1, <4>2
      <4>3. CASE node_time[n] # {}
        <5>1. PICK age \in Age : node_time[n] = {age}
          BY <1>2, <4>3 DEF TypeOK
        <5>2. node_time'[n] = {Older(age)}
          BY <4>1, <5>1
        <5>. QED BY <3>1, <5>2
      <4>. QED BY <4>2, <4>3
    <3>5. /\ beat_clock' \in [Node -> Age] /\ current_time' \in Age
          /\ node_time' \in [Node -> {{}} \cup {{age} : age \in Age}]
      BY <1>2, <2>6, <3>1, <3>2, <3>4 DEF Tick, TypeOK
    <3>. QED BY <2>1, <2>3, <3>3, <3>5 DEF TypeOK, TimeType
  <2>7. CASE ~Tick
    <3>1. /\ beat_clock' \in [Node -> Age] /\ check_clock' \in Age /\ current_time' \in Age
      BY <1>2, <2>5, <2>7
      DEF TypeOK, Next, Quit, CheckWakes, CheckLocks, CheckUnlocks, Start, Wake, AnswerArrives,
          HeartbeatFails, NextRound, Die, InitArrives, HeartbeatArrives, nc_register_new_node,
          nc_update_node_time, CheckNode, beatVars, checkVars, vars
    <3>2. \/ UNCHANGED node_time
          \/ \E n \in Node, age \in 0 .. Delay : node_time' = [node_time EXCEPT ![n] = {age}]
      BY <1>2, <2>7
      DEF TypeOK, Next, Quit, CheckWakes, CheckLocks, CheckUnlocks, Start, Wake, AnswerArrives,
          HeartbeatFails, Die, InitArrives, HeartbeatArrives, Stamp, nc_register_new_node,
          nc_update_node_time, CheckNode, requestVars, vars
    <3>3. node_time' \in [Node -> {{}} \cup {{age} : age \in Age}]
      BY <1>2, <2>5, <3>2 DEF TypeOK
    <3>. QED BY <2>1, <2>3, <3>1, <3>3 DEF TypeOK, TimeType
  <2>. QED BY <2>3, <2>6, <2>7
<1>. QED BY <1>1, <1>2, TypeInductive, PTL DEF Spec

-----------------------------------------------------------------------------
(* A node that lives and is heard is never older than its own sleep and two  *)
(* delays: one in the round that sent the last heartbeat, one in the present *)
(* round.                                                                    *)

RoundFits(n) ==
  /\ beat_pc[n] = "off" => request[n] = "none" /\ node_time[n] = {} /\ beat_clock[n] = 0
  /\ Alive(n) => beat_clock[n] <= Sleep(node_timeout[n]) + Delay
  /\ beat_pc[n] \in {"send", "answer"} => beat_clock[n] >= Sleep(node_timeout[n])
  /\ beat_pc[n] = "answer" /\ request[n] # "none"
       => stamp[n] + Sleep(node_timeout[n]) <= beat_clock[n]
  /\ beat_pc[n] = "answer" /\ request[n] # "Heartbeat"
       => \A age \in node_time[n] : age + Sleep(node_timeout[n]) <= beat_clock[n]
  /\ Alive(n) /\ n \notin missed => \A age \in node_time[n] : age <= beat_clock[n] + Delay

RoundInv == \A n \in Node : RoundFits(n)

\* What RoundFits speaks of.
roundVars(n) == <<node_timeout[n], beat_pc[n], beat_clock[n], request[n], stamp[n], node_time[n],
                  n \in missed>>

LEMMA OtherRounds ==
  ASSUME TimeType, RoundInv, UNCHANGED node_timeout, NEW n \in Node, RoundFits(n)',
         \A m \in Node \ {n} : UNCHANGED roundVars(m)
  PROVE  RoundInv'
<1>. SUFFICES ASSUME NEW m \in Node \ {n} PROVE RoundFits(m)'
  BY DEF RoundInv
<1>. QED BY DEF RoundInv, RoundFits, roundVars, Alive

LEMMA RoundInductive ==
  /\ Init => RoundInv
  /\ TimeType /\ RoundInv /\ [Next]_vars => RoundInv'
<1>1. ASSUME Init PROVE RoundInv
  <2>. SUFFICES ASSUME NEW n \in Node PROVE RoundFits(n)
    BY DEF RoundInv
  <2>. QED BY <1>1 DEF Init, RoundFits, Alive
<1>2. ASSUME TimeType, RoundInv, [Next]_vars PROVE RoundInv'
  <2>. USE <1>2
  <2>1. CASE Tick
    <3>. SUFFICES ASSUME NEW n \in Node PROVE RoundFits(n)'
      BY DEF RoundInv
    <3>. DEFINE S == Sleep(node_timeout[n])
    <3>1. /\ S \in Nat /\ beat_clock[n] \in Nat /\ stamp[n] \in Nat /\ node_time[n] \subseteq Nat
          /\ RoundFits(n)
      BY SleepFacts, ClockFacts DEF TimeType, RoundInv
    <3>2. /\ Alive(n) => /\ beat_clock'[n] = beat_clock[n] + 1
                         /\ beat_clock[n] < S + Delay
          /\ ~Alive(n) => beat_clock'[n] = 0
          /\ beat_pc' = beat_pc /\ request' = request /\ missed' = missed
          /\ node_timeout' = node_timeout
          /\ request[n] # "none" => stamp'[n] = stamp[n] + 1
          /\ node_time'[n] = {Older(age) : age \in node_time[n]}
      BY <2>1, <3>1, WakeFacts, ClockFacts DEF Tick, configVars, TimeType
    <3>3. \A new \in node_time'[n] : \E age \in node_time[n] : new \in Nat /\ new <= age + 1
      BY <3>1, <3>2, ClockFacts
    <3>4. Alive(n)' <=> Alive(n)
      BY <3>2 DEF Alive
    <3>5. beat_pc[n] = "off" => RoundFits(n)'
      BY <3>1, <3>2, <3>4 DEF RoundFits, Alive
    <3>6. beat_pc[n] = "gone" => RoundFits(n)'
      BY <3>1, <3>2, <3>4 DEF RoundFits, Alive
    <3>. HIDE DEF S
    <3>7. ASSUME Alive(n) PROVE RoundFits(n)'
      <4>1. beat_clock'[n] <= S + Delay /\ beat_clock'[n] \in Nat
        BY <3>1, <3>2, <3>7, ClockFacts
      <4>2. beat_pc[n] \in {"send", "answer"} => beat_clock'[n] >= S
        BY <3>1, <3>2, <3>7 DEF RoundFits, S
      <4>3. beat_pc[n] = "answer" /\ request[n] # "none" => stamp'[n] + S <= beat_clock'[n]
        BY <3>1, <3>2, <3>7 DEF RoundFits, S
      <4>4. beat_pc[n] = "answer" /\ request[n] # "Heartbeat"
              => \A age \in node_time'[n] : age + S <= beat_clock'[n]
        <5>. SUFFICES ASSUME beat_pc[n] = "answer", request[n] # "Heartbeat", NEW new \in node_time'[n]
                      PROVE  new + S <= beat_clock'[n]
          OBVIOUS
        <5>1. PICK age \in node_time[n] : new \in Nat /\ new <= age + 1
          BY <3>3
        <5>2. age + S <= beat_clock[n]
          BY <3>1 DEF RoundFits, S
        <5>. QED BY <3>1, <3>2, <3>7, <5>1, <5>2
      <4>5. n \notin missed => \A age \in node_time'[n] : age <= beat_clock'[n] + Delay
        BY <3>1, <3>2, <3>3, <3>7, ClockFacts DEF RoundFits
      <4>. QED BY <3>2, <3>7, <4>1, <4>2, <4>3, <4>4, <4>5 DEF RoundFits, S, Alive
    <3>. QED BY <3>5, <3>6, <3>7 DEF Alive
  <2>2. ASSUME NEW n \in Node, Start(n) \/ Wake(n) \/ Die(n) PROVE RoundInv'
    <3>1. RoundFits(n) /\ Sleep(node_timeout[n]) \in Nat
      BY SleepFacts DEF RoundInv, TimeType
    <3>2. RoundFits(n)'
      <4>1. CASE Start(n)
        <5>1. beat_pc'[n] = "sleep" /\ node_time'[n] = {} /\ request'[n] = "none"
              /\ UNCHANGED <<node_timeout, beat_clock>> /\ beat_clock[n] = 0
          BY <3>1, <4>1 DEF Start, RoundFits, TimeType, configVars, requestVars
        <5>. QED BY <3>1, <5>1, ClockFacts DEF RoundFits, Alive
      <4>2. CASE Wake(n)
        <5>1. /\ beat_pc[n] = "sleep" /\ beat_pc'[n] = "send"
              /\ UNCHANGED <<node_timeout, beat_clock, request, stamp, node_time, missed>>
              /\ beat_clock[n] >= Sleep(node_timeout[n])
          BY <4>2, WakeFacts DEF Wake, TimeType, configVars, requestVars
        <5>. QED BY <3>1, <5>1 DEF RoundFits, Alive
      <4>3. CASE Die(n)
        BY <3>1, <4>3 DEF Die, RoundFits, Alive, TimeType, configVars, requestVars
      <4>. QED BY <2>2, <4>1, <4>2, <4>3
    <3>. QED
      BY <2>2, <3>2, OtherRounds
      DEF Start, Wake, Die, roundVars, TimeType, configVars, requestVars
  <2>3. ASSUME NEW n \in Node, AnswerArrives(n) PROVE RoundInv'
    <3>1. RoundFits(n)'
      <4>1. /\ RoundFits(n) /\ Sleep(node_timeout[n]) \in Nat /\ beat_clock[n] \in Nat
            /\ node_time[n] \subseteq Nat
        BY SleepFacts DEF RoundInv, TimeType
      <4>2. /\ beat_pc[n] = "answer" /\ request[n] # "Heartbeat"
            /\ beat_pc'[n] = "sleep" /\ beat_clock'[n] = 0
            /\ UNCHANGED <<node_timeout, request, stamp, node_time, missed>>
        BY <2>3 DEF AnswerArrives, NextRound, TimeType, configVars, requestVars
      <4>3. \A age \in node_time[n] : age <= Delay
        BY <4>1, <4>2, ClockFacts DEF RoundFits, Alive
      <4>. QED BY <4>1, <4>2, <4>3, ClockFacts DEF RoundFits, Alive
    <3>. QED
      BY <2>3, <3>1, OtherRounds
      DEF AnswerArrives, NextRound, roundVars, TimeType, configVars, requestVars
  <2>4. ASSUME NEW n \in Node, HeartbeatFails(n) PROVE RoundInv'
    <3>1. RoundFits(n)'
      <4>1. Sleep(node_timeout[n]) \in Nat
        BY SleepFacts DEF TimeType
      <4>2. /\ beat_pc'[n] = "sleep" /\ beat_clock'[n] = 0 /\ n \in missed'
            /\ UNCHANGED node_timeout
        BY <2>4 DEF HeartbeatFails, NextRound, TimeType, configVars
      <4>. QED BY <4>1, <4>2, ClockFacts DEF RoundFits, Alive
    <3>. QED
      BY <2>4, <3>1, OtherRounds
      DEF HeartbeatFails, NextRound, roundVars, TimeType, configVars, requestVars
  <2>5. ASSUME NEW n \in Node, InitArrives(n) \/ HeartbeatArrives(n) PROVE RoundInv'
    <3>1. RoundFits(n)'
      <4>1. RoundFits(n) /\ Sleep(node_timeout[n]) \in Nat /\ beat_clock[n] \in Nat
        BY SleepFacts DEF RoundInv, TimeType
      <4>2. CASE InitArrives(n)
        BY <4>1, <4>2 DEF InitArrives, Stamp, RoundFits, Alive, TimeType, configVars, beatVars
      <4>3. CASE HeartbeatArrives(n)
        BY <2>5, <4>1, <4>3
        DEF HeartbeatArrives, Stamp, RoundFits, Alive, TimeType, configVars, requestVars
      <4>. QED BY <2>5, <4>2, <4>3
    <3>. QED
      BY <2>5, <3>1, OtherRounds
      DEF InitArrives, HeartbeatArrives, Stamp, roundVars, TimeType,
          configVars, beatVars, requestVars
  <2>6. ASSUME NEW n \in Node, nc_register_new_node(n) \/ nc_update_node_time(n) PROVE RoundInv'
    <3>1. RoundFits(n)'
      <4>1. RoundFits(n) /\ Sleep(node_timeout[n]) \in Nat /\ beat_clock[n] \in Nat
        BY SleepFacts DEF RoundInv, TimeType
      <4>2. stamp[n] \in Nat /\ stamp[n] <= Delay
        BY ClockFacts DEF TimeType
      <4>3. /\ beat_pc[n] # "off" /\ request[n] # "none"
            /\ request'[n] = "none" /\ stamp'[n] = 0
            /\ UNCHANGED <<node_timeout, beat_pc, beat_clock, missed>>
            /\ \/ node_time'[n] = node_time[n] /\ request[n] = "Init"
               \/ node_time'[n] = {stamp[n]}
        BY <2>6, <4>1
        DEF nc_register_new_node, nc_update_node_time, Stored, RoundFits, TimeType,
            configVars, beatVars
      <4>. QED BY <4>1, <4>2, <4>3, ClockFacts DEF RoundFits, Alive
    <3>. QED
      BY <2>6, <3>1, OtherRounds
      DEF nc_register_new_node, nc_update_node_time, Stored, roundVars, TimeType,
          configVars, beatVars
  <2>7. CASE UNCHANGED <<node_timeout, beatVars, requestVars>>
    BY <2>7 DEF RoundInv, RoundFits, Alive, beatVars, requestVars
  <2>. QED
    BY <2>1, <2>2, <2>3, <2>4, <2>5, <2>6, <2>7
    DEF Next, Quit, CheckWakes, CheckLocks, CheckUnlocks, CheckNode, vars, configVars
<1>. QED BY <1>1, <1>2

LEMMA NoFalseInductive ==
  /\ Init => NoFalseTimeout
  /\ TimeType /\ RoundInv /\ NoFalseTimeout /\ [Next]_vars => NoFalseTimeout'
<1>1. Init => NoFalseTimeout
  BY DEF Init, NoFalseTimeout
<1>2. ASSUME TimeType, RoundInv, NoFalseTimeout, [Next]_vars PROVE NoFalseTimeout'
  <2>. USE <1>2
  <2>1. /\ UNCHANGED configVars /\ missed \subseteq missed'
        /\ \A n \in Node : beat_pc[n] = "gone" => beat_pc'[n] = "gone"
    BY DEF Next, Tick, Quit, CheckWakes, CheckLocks, CheckUnlocks, CheckNode, Start, Wake,
           AnswerArrives, HeartbeatFails, NextRound, Die, InitArrives, HeartbeatArrives,
           nc_register_new_node, nc_update_node_time, TimeType, beatVars, vars
  <2>2. ASSUME NEW n \in Node, TooOld(n)
        PROVE  beat_pc[n] = "gone" \/ n \in missed \/ node_timeout[n] > server_timeout
    <3>1. SUFFICES ASSUME beat_pc[n] # "gone", n \notin missed, node_timeout[n] <= server_timeout
                   PROVE  FALSE
      BY DEF TimeType
    <3>2. PICK age \in node_time[n] : /\ age >= current_time
                                      /\ (age - current_time) \div Second > server_timeout
      BY <2>2 DEF TooOld
    <3>3. age \in Nat /\ current_time \in Nat /\ server_timeout \in Nat /\ node_timeout[n] \in Nat
          /\ beat_clock[n] \in Nat
      BY DEF TimeType
    <3>4. age - current_time >= Sleep(server_timeout) + Second
      BY <3>2, <3>3, WholeSeconds
    <3>5. Alive(n) /\ RoundFits(n)
      BY <3>1, <3>2 DEF RoundInv, RoundFits, Alive
    <3>6. age <= beat_clock[n] + Delay /\ beat_clock[n] <= Sleep(node_timeout[n]) + Delay
      BY <3>1, <3>2, <3>5 DEF RoundFits
    <3>7. /\ Sleep(node_timeout[n]) <= Sleep(server_timeout)
          /\ Sleep(node_timeout[n]) \in Nat /\ Sleep(server_timeout) \in Nat
      BY <3>1, <3>3, SleepFacts
    <3>. QED BY <3>3, <3>4, <3>6, <3>7, ClockFacts
  <2>3. ASSUME NEW n \in Node, CheckNode(n)
        PROVE  \A m \in timed_out' : m \in timed_out \/ TooOld(m)
    BY <2>3 DEF CheckNode
  <2>4. timed_out' = timed_out \/ \E n \in Node : CheckNode(n)
    BY DEF Next, Tick, Quit, CheckWakes, CheckLocks, CheckUnlocks, Start, Wake,
           AnswerArrives, HeartbeatFails, Die, InitArrives, HeartbeatArrives,
           nc_register_new_node, nc_update_node_time, checkVars, vars
  <2>5. timed_out \subseteq Node /\ timed_out' \subseteq Node
    BY TypeInductive DEF TimeType
  <2>. QED BY <2>1, <2>2, <2>3, <2>4, <2>5 DEF NoFalseTimeout, configVars
<1>. QED BY <1>1, <1>2

\* A node whose heartbeats get through and whose timeout is not longer than the
\* server's never times out, whatever the timeouts and with any delay of less
\* than half a second (nc_node.cpp:223-241, nc_server.cpp:271-279).
THEOREM NeverTimedOut == Spec => []NoFalseTimeout
BY TypeInductive, RoundInductive, NoFalseInductive, PTL DEF Spec

-----------------------------------------------------------------------------
(* A node that nc_check_heartbeat has not reported was young enough when it  *)
(* last looked, which is less than a sleep and two delays ago.               *)

Reach == Sleep(server_timeout) + Second   \* in whole seconds, more than the timeout

CheckInv ==
  /\ check_pc = "ended" => quit
  /\ check_pc # "ended" =>
       /\ check_clock <= Sleep(server_timeout) + Delay
       /\ check_pc # "sleep" => current_time + Sleep(server_timeout) <= check_clock
       /\ \A n \in Node \ noticed : \A age \in node_time[n] :
            /\ age <= Reach + Delay + check_clock
            /\ check_pc = "check" /\ n \notin unchecked => age < Second + check_clock

LEMMA CheckInductive ==
  /\ Init => CheckInv
  /\ TimeType /\ CheckInv /\ [Next]_vars => CheckInv'
<1>1. ASSUME Init PROVE CheckInv
  <2>1. server_timeout \in Nat
    BY <1>1, ConfigType DEF Init
  <2>2. /\ check_pc = "sleep" /\ check_clock = 0
        /\ \A n \in Node : node_time[n] = {}
    BY <1>1 DEF Init
  <2>3. Sleep(server_timeout) \in Nat
    BY <2>1, SleepFacts
  <2>4. check_clock <= Sleep(server_timeout) + Delay
    BY <2>2, <2>3, ClockFacts
  <2>. QED BY <2>2, <2>4 DEF CheckInv
<1>2. ASSUME TimeType, CheckInv, [Next]_vars PROVE CheckInv'
  <2>. USE <1>2
  <2>. DEFINE S == Sleep(server_timeout)
  <2>1. /\ S \in Nat /\ S = Sleep(server_timeout) /\ Reach = S + Second
        /\ check_clock \in Nat /\ current_time \in Nat
        /\ \A n \in Node : \A age \in node_time[n] : age \in Nat
    BY SleepFacts DEF TimeType, Reach
  <2>2. UNCHANGED server_timeout
    BY DEF Next, Tick, Quit, CheckWakes, CheckLocks, CheckUnlocks, CheckNode, Start, Wake,
           AnswerArrives, HeartbeatFails, Die, InitArrives, HeartbeatArrives,
           nc_register_new_node, nc_update_node_time, configVars, vars
  <2>3. Reach' = Reach /\ S' = S
    BY <2>2 DEF Reach
  <2>. HIDE DEF S
  <2>4. CASE Tick
    <3>1. /\ UNCHANGED <<quit, check_pc, unchecked, noticed>>
          /\ check_pc # "ended" => /\ check_clock' = check_clock + 1
                                   /\ check_clock < S + Delay
          /\ current_time' <= current_time + 1 /\ current_time' \in Nat
          /\ \A n \in Node : node_time'[n] = {Older(age) : age \in node_time[n]}
      BY <2>1, <2>4, WakeFacts, ClockFacts DEF Tick, TimeType
    <3>2. \A n \in Node : \A new \in node_time'[n] :
            \E age \in node_time[n] : new \in Nat /\ new <= age + 1
      BY <2>1, <3>1, ClockFacts
    <3>3. CASE check_pc = "ended"
      BY <3>1, <3>3 DEF CheckInv
    <3>4. CASE check_pc # "ended"
      <4>1. /\ check_clock' <= S + Delay
            /\ check_pc # "sleep" => current_time' + S <= check_clock'
        BY <2>1, <3>1, <3>4, ClockFacts DEF CheckInv
      <4>2. ASSUME NEW n \in Node \ noticed, NEW new \in node_time'[n]
            PROVE  /\ new <= Reach + Delay + check_clock'
                   /\ check_pc = "check" /\ n \notin unchecked => new < Second + check_clock'
        <5>1. PICK age \in node_time[n] : new \in Nat /\ new <= age + 1
          BY <3>2
        <5>2. /\ age <= Reach + Delay + check_clock
              /\ check_pc = "check" /\ n \notin unchecked => age < Second + check_clock
          BY <3>4 DEF CheckInv
        <5>. QED BY <2>1, <3>1, <3>4, <5>1, <5>2, ClockFacts
      <4>. QED BY <2>1, <2>2, <2>3, <3>1, <3>4, <4>1, <4>2 DEF CheckInv
    <3>. QED BY <3>3, <3>4
  <2>5. CASE CheckWakes
    BY <2>1, <2>2, <2>3, <2>5, WakeFacts
    DEF CheckWakes, CheckInv, TimeType, requestVars
  <2>6. CASE CheckLocks
    BY <2>1, <2>2, <2>3, <2>6 DEF CheckLocks, CheckInv, requestVars
  <2>7. CASE CheckUnlocks
    <3>1. /\ check_pc = "check" /\ unchecked = {}
          /\ check_pc' = IF quit THEN "ended" ELSE "sleep"
          /\ check_clock' = 0
          /\ UNCHANGED <<quit, node_time, noticed>>
      BY <2>7 DEF CheckUnlocks, requestVars
    <3>2. \A n \in Node \ noticed : \A age \in node_time[n] : age < Second + S + Delay
      BY <2>1, <3>1, ClockFacts DEF CheckInv
    <3>. QED BY <2>1, <2>2, <2>3, <3>1, <3>2, ClockFacts DEF CheckInv
  <2>8. ASSUME NEW n \in Node, CheckNode(n) PROVE CheckInv'
    <3>1. /\ check_pc = "check"
          /\ unchecked' = unchecked \ {n}
          /\ noticed' = IF TooOld(n) THEN noticed \cup {n} ELSE noticed
          /\ UNCHANGED <<quit, node_time, check_pc, check_clock, current_time>>
      BY <2>8 DEF CheckNode, requestVars
    <3>2. ASSUME ~TooOld(n), NEW age \in node_time[n] PROVE age < Second + check_clock
      <4>1. current_time + S <= check_clock
        BY <2>1, <3>1 DEF CheckInv
      <4>2. CASE age < current_time
        BY <2>1, <4>1, <4>2, ClockFacts
      <4>3. CASE age >= current_time
        <5>1. age - current_time \in Nat /\ ~((age - current_time) \div Second > server_timeout)
          BY <2>1, <3>2, <4>3 DEF TooOld
        <5>2. ~(age - current_time >= S + Second)
          BY <2>1, <5>1, WholeSeconds DEF TimeType
        <5>. QED BY <2>1, <4>1, <5>2, ClockFacts
      <4>. QED BY <2>1, <4>2, <4>3
    <3>. QED BY <2>1, <2>2, <2>3, <3>1, <3>2 DEF CheckInv
  <2>9. ASSUME NEW n \in Node, nc_register_new_node(n) \/ nc_update_node_time(n) PROVE CheckInv'
    <3>1. /\ check_pc # "check" /\ UNCHANGED <<quit, check_pc, check_clock, current_time>>
          /\ \/ noticed' = noticed
             \/ noticed' = noticed \ {n} /\ node_time'[n] = {stamp[n]}
          /\ \A m \in Node : node_time'[m] = node_time[m] \/ node_time'[m] = {stamp[n]}
      BY <2>9
      DEF nc_register_new_node, nc_update_node_time, ServerMutexFree, TimeType, checkVars
    <3>2. stamp[n] \in Nat /\ stamp[n] <= Delay
      BY ClockFacts DEF TimeType
    <3>3. ASSUME check_pc # "ended", NEW m \in Node \ noticed', NEW age \in node_time'[m]
          PROVE  age <= Reach + Delay + check_clock
      <4>1. CASE age = stamp[n]
        BY <2>1, <3>2, <4>1, ClockFacts
      <4>2. CASE age # stamp[n]
        BY <3>1, <3>3, <4>2 DEF CheckInv
      <4>. QED BY <4>1, <4>2
    <3>. QED BY <2>1, <2>2, <2>3, <3>1, <3>3 DEF CheckInv
  <2>10. CASE Quit
    BY <2>2, <2>3, <2>10 DEF Quit, CheckInv, requestVars, checkVars
  <2>11. CASE UNCHANGED <<quit, node_time, checkVars, noticed>>
    BY <2>2, <2>3, <2>11 DEF CheckInv, checkVars
  <2>. QED
    BY <2>4, <2>5, <2>6, <2>7, <2>8, <2>9, <2>10, <2>11
    DEF Next, Start, Wake, AnswerArrives, HeartbeatFails, Die, InitArrives, HeartbeatArrives,
        Stamp, requestVars, vars
<1>. QED BY <1>1, <1>2

\* A node the server has not heard of for two timeouts and two seconds has been
\* reported to the processor (nc_server.cpp:262-280), under the same assumption.
THEOREM SilenceNoticed == Spec => []SilentNodesNoticed
<1>1. TimeType /\ CheckInv => SilentNodesNoticed
  <2>. SUFFICES ASSUME TimeType, CheckInv, NEW n \in Node, NEW age \in node_time[n],
                       age >= (2 * server_timeout + 2) * Second, ~quit, n \notin noticed
                PROVE  FALSE
    BY DEF SilentNodesNoticed
  <2>1. /\ check_clock <= Sleep(server_timeout) + Delay
        /\ age <= Reach + Delay + check_clock
    BY DEF CheckInv
  <2>2. Sleep(server_timeout) \in Nat /\ age >= 2 * Sleep(server_timeout) + 2 * Second
    BY SleepFacts DEF TimeType
  <2>3. age \in Nat /\ check_clock \in Nat
    BY DEF TimeType
  <2>. QED BY <2>1, <2>2, <2>3, ClockFacts DEF Reach
<1>. QED BY <1>1, TypeInductive, CheckInductive, PTL DEF Spec

-----------------------------------------------------------------------------
(* The time behind NCServer: all_nodes as NCServer abstracts it, and what   *)
(* its steps do to it.  A node is stale when nc_check_heartbeat would find  *)
(* it too old by the time it last read.                                     *)

NodeState(n) == IF node_time[n] = {} THEN "absent" ELSE IF TooOld(n) THEN "stale" ELSE "fresh"
all_nodes == [n \in Node |-> NodeState(n)]

Locked == check_pc = "check" /\ unchecked # {}

Refreshes(n) ==
  /\ ~Locked /\ ~Locked'
  /\ all_nodes' = [all_nodes EXCEPT ![n] = "fresh"]
  /\ UNCHANGED timed_out

\* NCServer's nc_register_new_node and nc_update_node_time.
Registers(n) == all_nodes[n] = "absent" /\ Refreshes(n)
Updates(n) == all_nodes[n] # "absent" /\ Refreshes(n)

\* Its Expire, of any nodes at once.
Expires ==
  /\ ~Locked /\ ~Locked'
  /\ \A n \in Node : all_nodes'[n] = all_nodes[n]
                     \/ (all_nodes[n] = "fresh" /\ all_nodes'[n] = "stale")
  /\ UNCHANGED timed_out

\* Its Wake and its CheckNode.
Locks ==
  /\ ~Locked /\ Locked'
  /\ unchecked' = {n \in Node : all_nodes[n] # "absent"}
  /\ UNCHANGED <<all_nodes, timed_out>>

Checks(n) ==
  /\ Locked /\ n \in unchecked
  /\ unchecked' = unchecked \ {n}
  /\ (Locked' <=> unchecked' # {})
  /\ timed_out' = IF all_nodes[n] = "stale" THEN timed_out \cup {n} ELSE timed_out
  /\ UNCHANGED all_nodes

Stands ==
  /\ UNCHANGED <<all_nodes, timed_out>>
  /\ (Locked' <=> Locked)
  /\ Locked => UNCHANGED unchecked

AsInNCServer == \/ Expires \/ Locks \/ Stands
                \/ \E n \in Node : Registers(n) \/ Updates(n) \/ Checks(n)

\* The time last read is younger than a round, so that it grows with the ages.
ReadInv ==
  /\ 2 * Sleep(server_timeout) + 2 * Delay + Second <= MaxAge
  /\ check_pc # "ended" => check_clock <= Sleep(server_timeout) + Delay
  /\ check_pc \in {"lock", "check"} => current_time + Sleep(server_timeout) <= check_clock
  /\ check_pc = "sleep" => current_time <= check_clock + Delay
  /\ \A n \in Node : request[n] = "Heartbeat" => node_time[n] # {}

LEMMA StaleAges ==
  ASSUME NEW t \in Nat, NEW now \in Nat, NEW age \in Nat
  PROVE  age >= now /\ (age - now) \div Second > t <=> age - now >= Sleep(t) + Second
<1>1. Sleep(t) \in Nat
  BY SleepFacts
<1>2. CASE age >= now
  <2>1. age - now \in Nat
    BY <1>2
  <2>. QED BY <1>2, <2>1, WholeSeconds
<1>3. CASE ~(age >= now)
  BY <1>1, <1>3, ClockFacts
<1>. QED BY <1>2, <1>3

LEMMA ReadInductive ==
  ASSUME \A c \in Configs : 2 * Sleep(c.heartbeat_timeout) + 2 * Delay + Second <= MaxAge
  PROVE  /\ Init => ReadInv
         /\ TimeType /\ ReadInv /\ [Next]_vars => ReadInv'
<1>1. ASSUME Init PROVE ReadInv
  <2>1. PICK c \in Configs : server_timeout = c.heartbeat_timeout
    BY <1>1 DEF Init
  <2>2. 2 * Sleep(server_timeout) + 2 * Delay + Second <= MaxAge
    BY <2>1
  <2>3. Sleep(server_timeout) \in Nat
    BY <2>1, ConfigType, SleepFacts
  <2>4. /\ check_pc = "sleep" /\ check_clock = 0 /\ current_time = 0
        /\ \A n \in Node : request[n] = "none"
    BY <1>1 DEF Init
  <2>. QED BY <2>2, <2>3, <2>4, ClockFacts DEF ReadInv
<1>2. ASSUME TimeType, ReadInv, [Next]_vars PROVE ReadInv'
  <2>. USE <1>2
  <2>. DEFINE S == Sleep(server_timeout)
  <2>1. /\ S \in Nat /\ S = Sleep(server_timeout)
        /\ check_clock \in Nat /\ current_time \in Nat /\ check_pc \in CheckPC
    BY SleepFacts DEF TimeType
  <2>2. UNCHANGED server_timeout
    BY DEF Next, Tick, Quit, CheckWakes, CheckLocks, CheckUnlocks, CheckNode, Start, Wake,
           AnswerArrives, HeartbeatFails, Die, InitArrives, HeartbeatArrives,
           nc_register_new_node, nc_update_node_time, configVars, vars
  <2>3. /\ S' = S /\ S' = Sleep(server_timeout')
        /\ 2 * S' + 2 * Delay + Second <= MaxAge
    BY <2>2 DEF ReadInv
  <2>. HIDE DEF S
  <2>4. ASSUME NEW n \in Node, request'[n] = "Heartbeat" PROVE node_time'[n] # {}
    <3>1. CASE Tick
      BY <2>4, <3>1 DEF Tick, ReadInv
    <3>2. CASE ~Tick
      <4>1. \/ UNCHANGED node_time
            \/ \E m \in Node : /\ node_time' = [node_time EXCEPT ![m] = {stamp[m]}]
        BY <3>2
        DEF Next, Quit, CheckWakes, CheckLocks, CheckUnlocks, CheckNode, Start, Wake,
            AnswerArrives, HeartbeatFails, Die, InitArrives, HeartbeatArrives, Stamp,
            nc_register_new_node, nc_update_node_time, requestVars, vars, TimeType
      <4>2. node_time[n] # {} => node_time'[n] # {}
        BY <4>1 DEF TimeType
      <4>3. request[n] = "Heartbeat" \/ node_time[n] # {}
        BY <2>4, <3>2
        DEF Next, Quit, CheckWakes, CheckLocks, CheckUnlocks, CheckNode, Start, Wake,
            AnswerArrives, HeartbeatFails, Die, InitArrives, HeartbeatArrives, Stamp, Stored,
            nc_register_new_node, nc_update_node_time, requestVars, vars, TimeType
      <4>. QED BY <4>2, <4>3 DEF ReadInv
    <3>. QED BY <3>1, <3>2
  <2>. DEFINE Clocks == /\ check_pc # "ended" => check_clock <= S + Delay
                        /\ check_pc \in {"lock", "check"} => current_time + S <= check_clock
                        /\ check_pc = "sleep" => current_time <= check_clock + Delay
  <2>5. Clocks
    BY <2>1 DEF ReadInv
  <2>6. Clocks'
    <3>1. CASE Tick
      <4>1. /\ check_pc' = check_pc
            /\ check_pc # "ended" => check_clock' = check_clock + 1 /\ check_clock < S + Delay
            /\ current_time' \in Nat /\ current_time' <= current_time + 1
        BY <2>1, <3>1, WakeFacts, ClockFacts DEF Tick, TimeType
      <4>. QED BY <2>1, <2>3, <2>5, <4>1, ClockFacts
    <3>2. CASE CheckWakes
      <4>1. /\ check_pc = "sleep" /\ check_pc' \in {"lock", "ended"}
            /\ check_clock' = check_clock /\ check_clock >= S /\ current_time' = 0
        BY <2>1, <3>2, WakeFacts DEF CheckWakes, TimeType
      <4>. QED BY <2>1, <2>3, <2>5, <4>1
    <3>3. CASE CheckLocks
      BY <2>1, <2>3, <2>5, <3>3 DEF CheckLocks
    <3>4. CASE CheckUnlocks
      BY <2>1, <2>3, <2>5, <3>4, ClockFacts DEF CheckUnlocks
    <3>5. CASE UNCHANGED <<check_pc, check_clock, current_time>>
      BY <2>3, <2>5, <3>5
    <3>. QED
      BY <3>1, <3>2, <3>3, <3>4, <3>5
      DEF Next, Quit, CheckNode, Start, Wake, AnswerArrives, HeartbeatFails, Die, InitArrives,
          HeartbeatArrives, nc_register_new_node, nc_update_node_time, checkVars, vars
  <2>. QED BY <2>1, <2>3, <2>4, <2>6 DEF ReadInv
<1>. QED BY <1>1, <1>2

\* A step that leaves the times alone leaves every node as it is.
LEMMA SameTimes ==
  ASSUME UNCHANGED <<server_timeout, node_time, current_time>>
  PROVE  UNCHANGED all_nodes
BY DEF all_nodes, NodeState, TooOld

LEMMA TwoDelays ==
  ASSUME NEW a \in Nat, NEW b \in Nat, NEW c \in Nat, NEW d \in Nat, a <= b + d, b <= c + d
  PROVE  a <= c + d + d
OBVIOUS

\* Ages and the time last read grow together: the clock alone makes no node stale.
LEMMA TickKeeps ==
  ASSUME TimeType, TimeType', TypeOK, ReadInv, ReadInv', Tick, check_pc # "ended"
  PROVE  UNCHANGED all_nodes
<1>. DEFINE S == Sleep(server_timeout)
<1>1. /\ S \in Nat /\ S = Sleep(server_timeout) /\ current_time \in Nat /\ current_time' \in Nat
      /\ check_clock' \in Nat
  BY SleepFacts DEF TimeType
<1>2. /\ UNCHANGED <<server_timeout, check_pc>>
      /\ current_time' = Older(current_time)
      /\ \A n \in Node : node_time'[n] = {Older(age) : age \in node_time[n]}
  BY DEF Tick, configVars, TimeType
<1>3. S' = S /\ S' = Sleep(server_timeout')
  BY <1>2
<1>. HIDE DEF S
<1>4. 2 * S + 2 * Delay + Second <= MaxAge /\ MaxAge \in Nat
  BY <1>1, ClockAssumption DEF ReadInv
<1>5. current_time' <= S + Delay + Delay
  <2>1. check_pc' \in CheckPC \ {"ended"}
    BY <1>2 DEF TimeType
  <2>2. /\ check_clock' <= S' + Delay
        /\ check_pc' \in {"lock", "check"} => current_time' + S' <= check_clock'
        /\ check_pc' = "sleep" => current_time' <= check_clock' + Delay
    BY <1>2, <1>3 DEF ReadInv
  <2>3. CASE check_pc' = "sleep"
    <3>1. current_time' <= check_clock' + Delay /\ check_clock' <= S + Delay
      BY <1>3, <2>2, <2>3
    <3>. QED BY <1>1, <3>1, ClockAssumption, TwoDelays
  <2>4. CASE check_pc' \in {"lock", "check"}
    <3>1. current_time' + S <= check_clock' /\ check_clock' <= S + Delay
      BY <1>3, <2>2, <2>4
    <3>2. current_time' <= Delay
      BY <1>1, <3>1, ClockFacts
    <3>. QED BY <1>1, <3>2, ClockFacts
  <2>. QED BY <2>1, <2>3, <2>4 DEF CheckPC
<1>6. current_time' = current_time + 1
  BY <1>1, <1>2, <1>4, <1>5, ClockFacts DEF Older
<1>7. ASSUME NEW age \in 0 .. MaxAge
      PROVE  Older(age) - current_time' >= S + Second <=> age - current_time >= S + Second
  <2>1. CASE age < MaxAge
    BY <1>1, <1>6, <2>1, ClockFacts DEF Older
  <2>2. CASE age = MaxAge
    BY <1>1, <1>4, <1>5, <1>6, <2>2, ClockFacts DEF Older
  <2>. QED BY <1>4, <2>1, <2>2
<1>8. ASSUME NEW n \in Node PROVE TooOld(n)' <=> TooOld(n)
  <2>1. node_time[n] \subseteq 0 .. MaxAge
    BY DEF TypeOK, Age
  <2>2. /\ server_timeout \in Nat /\ server_timeout' \in Nat
        /\ node_time[n] \subseteq Nat /\ node_time'[n] \subseteq Nat
    BY DEF TimeType
  <2>3. TooOld(n) <=> \E age \in node_time[n] : age - current_time >= S + Second
    BY <1>1, <2>2, StaleAges DEF TooOld
  <2>4. TooOld(n)' <=> \E age \in node_time'[n] : age - current_time' >= S + Second
    BY <1>1, <1>3, <2>2, StaleAges DEF TooOld
  <2>. QED BY <1>2, <1>7, <2>1, <2>3, <2>4
<1>. QED BY <1>2, <1>8 DEF all_nodes, NodeState

LEMMA StatesOfNodes ==
  ASSUME NEW n \in Node
  PROVE  /\ all_nodes[n] = "absent" <=> node_time[n] = {}
         /\ all_nodes[n] = "stale" <=> TooOld(n)
         /\ all_nodes[n] = "fresh" <=> node_time[n] # {} /\ ~TooOld(n)
BY DEF all_nodes, NodeState, TooOld

\* A node goes stale when nc_check_heartbeat reads the clock.
LEMMA WakingExpires ==
  ASSUME TimeType, TimeType', CheckWakes
  PROVE  Expires
<1>1. /\ check_pc = "sleep" /\ check_pc' # "check" /\ current_time' = 0
      /\ UNCHANGED <<server_timeout, node_time, timed_out>>
  BY DEF CheckWakes, configVars, requestVars
<1>2. ASSUME NEW n \in Node, TooOld(n) PROVE TooOld(n)'
  <2>1. /\ server_timeout \in Nat /\ current_time \in Nat /\ node_time[n] \subseteq Nat
    BY DEF TimeType
  <2>2. Sleep(server_timeout) \in Nat
    BY <2>1, SleepFacts
  <2>3. PICK age \in node_time[n] : age - current_time >= Sleep(server_timeout) + Second
    BY <1>2, <2>1, StaleAges DEF TooOld
  <2>4. age - 0 >= Sleep(server_timeout) + Second
    BY <2>1, <2>2, <2>3, ClockAssumption
  <2>5. age >= 0 /\ (age - 0) \div Second > server_timeout
    BY <2>1, <2>4, StaleAges
  <2>. QED BY <1>1, <2>5 DEF TooOld
<1>3. ASSUME NEW n \in Node
      PROVE  \/ all_nodes'[n] = all_nodes[n]
             \/ all_nodes[n] = "fresh" /\ all_nodes'[n] = "stale"
  BY <1>1, <1>2 DEF all_nodes, NodeState
<1>. QED BY <1>1, <1>3 DEF Expires, Locked

\* A time just stored is not older than a round, which is less than a second.
LEMMA StoringRefreshes ==
  ASSUME TimeType, ReadInv, NEW n \in Node, nc_register_new_node(n) \/ nc_update_node_time(n)
  PROVE  Registers(n) \/ Updates(n) \/ Stands
<1>1. /\ check_pc # "check"
      /\ UNCHANGED <<server_timeout, current_time, check_pc, unchecked, timed_out>>
      /\ \/ /\ request[n] = "Init" /\ node_time[n] = {}
            /\ node_time' = [node_time EXCEPT ![n] = {stamp[n]}]
         \/ /\ node_time[n] # {}
            /\ node_time' = [node_time EXCEPT ![n] = {stamp[n]}]
         \/ UNCHANGED node_time
  BY DEF nc_register_new_node, nc_update_node_time, ServerMutexFree, configVars, checkVars,
         TimeType, ReadInv
<1>2. ~Locked /\ ~Locked'
  BY <1>1 DEF Locked
<1>3. ASSUME node_time' = [node_time EXCEPT ![n] = {stamp[n]}]
      PROVE  all_nodes' = [all_nodes EXCEPT ![n] = "fresh"]
  <2>1. node_time'[n] = {stamp[n]} /\ \A m \in Node \ {n} : node_time'[m] = node_time[m]
    BY <1>3 DEF TimeType
  <2>2. stamp[n] \in Nat /\ stamp[n] <= Delay /\ server_timeout \in Nat /\ current_time \in Nat
    BY ClockFacts DEF TimeType
  <2>3. Sleep(server_timeout) \in Nat
    BY <2>2, SleepFacts
  <2>4. ~(stamp[n] - current_time >= Sleep(server_timeout) + Second)
    BY <2>2, <2>3, ClockAssumption
  <2>5. ~(stamp[n] >= current_time /\ (stamp[n] - current_time) \div Second > server_timeout)
    BY <2>2, <2>4, StaleAges
  <2>6. ~TooOld(n)'
    BY <1>1, <2>1, <2>5 DEF TooOld
  <2>7. all_nodes'[n] = "fresh"
    BY <2>1, <2>6 DEF all_nodes, NodeState
  <2>8. \A m \in Node \ {n} : all_nodes'[m] = all_nodes[m]
    BY <1>1, <2>1 DEF all_nodes, NodeState, TooOld
  <2>. QED BY <2>7, <2>8 DEF all_nodes
<1>4. CASE UNCHANGED node_time
  BY <1>1, <1>2, <1>4, SameTimes DEF Stands
<1>5. CASE node_time' = [node_time EXCEPT ![n] = {stamp[n]}]
  <2>1. Refreshes(n)
    BY <1>1, <1>2, <1>3, <1>5 DEF Refreshes
  <2>. QED BY <2>1 DEF Registers, Updates
<1>. QED BY <1>1, <1>4, <1>5

LEMMA CheckingChecks ==
  ASSUME TimeType, NEW n \in Node, CheckNode(n)
  PROVE  Checks(n)
<1>1. /\ check_pc = "check" /\ check_pc' = "check" /\ n \in unchecked
      /\ unchecked' = unchecked \ {n}
      /\ timed_out' = IF TooOld(n) THEN timed_out \cup {n} ELSE timed_out
      /\ UNCHANGED <<server_timeout, current_time, node_time>>
  BY DEF CheckNode, configVars, requestVars
<1>2. UNCHANGED all_nodes
  BY <1>1, SameTimes
<1>3. all_nodes[n] = "stale" <=> TooOld(n)
  BY StatesOfNodes
<1>. QED BY <1>1, <1>2, <1>3 DEF Checks, Locked

LEMMA LockingLocks ==
  ASSUME CheckLocks
  PROVE  Locks \/ Stands
<1>1. /\ check_pc = "lock" /\ check_pc' = "check"
      /\ unchecked' = {n \in Node : node_time[n] # {}}
      /\ UNCHANGED <<server_timeout, current_time, node_time, timed_out>>
  BY DEF CheckLocks, configVars, requestVars
<1>2. UNCHANGED all_nodes
  BY <1>1, SameTimes
<1>3. unchecked' = {n \in Node : all_nodes[n] # "absent"}
  BY <1>1, StatesOfNodes
<1>. QED BY <1>1, <1>2, <1>3 DEF Locks, Stands, Locked

\* What NCServer says of the ages of the nodes is what the clock does to them:
\* a node becomes known and fresh by Init, fresh by a heartbeat, stale only by
\* Expire, which never happens under server_mutex, and nc_check_heartbeat calls
\* nc_node_timeout for a node it visits just if that node is stale
\* (nc_server.cpp:255-286).  MaxAge must not cut off an age that still matters.
THEOREM TimesAsInNCServer ==
  ASSUME \A c \in Configs : 2 * Sleep(c.heartbeat_timeout) + 2 * Delay + Second <= MaxAge
  PROVE  Spec => [][check_pc # "ended" => AsInNCServer]_vars
<1>1. \A c \in Configs : Sleep(c.heartbeat_timeout) + Delay <= MaxAge
  <2>. SUFFICES ASSUME NEW c \in Configs PROVE Sleep(c.heartbeat_timeout) + Delay <= MaxAge
    OBVIOUS
  <2>1. Sleep(c.heartbeat_timeout) \in Nat
    BY ConfigType, SleepFacts
  <2>. QED BY <2>1, ClockAssumption
<1>2. ASSUME TimeType, TimeType', TypeOK, ReadInv, ReadInv', Next, check_pc # "ended"
      PROVE  AsInNCServer
  <2>. USE <1>2
  <2>1. CASE Tick
    <3>1. UNCHANGED all_nodes
      BY <2>1, TickKeeps
    <3>. QED BY <2>1, <3>1 DEF Tick, Stands, Locked, AsInNCServer
  <2>2. CASE CheckWakes
    BY <2>2, WakingExpires DEF AsInNCServer
  <2>3. CASE CheckLocks
    BY <2>3, LockingLocks DEF AsInNCServer
  <2>4. ASSUME NEW n \in Node, CheckNode(n) PROVE AsInNCServer
    BY <2>4, CheckingChecks DEF AsInNCServer
  <2>5. ASSUME NEW n \in Node, nc_register_new_node(n) \/ nc_update_node_time(n)
        PROVE  AsInNCServer
    BY <2>5, StoringRefreshes DEF AsInNCServer
  <2>6. CASE /\ UNCHANGED <<server_timeout, node_time, current_time, timed_out>>
             /\ UNCHANGED <<check_pc, unchecked>> \/ (~Locked /\ ~Locked')
    <3>1. UNCHANGED all_nodes
      BY <2>6, SameTimes
    <3>2. (Locked' <=> Locked) /\ (Locked => UNCHANGED unchecked)
      BY <2>6 DEF Locked
    <3>. QED BY <2>6, <3>1, <3>2 DEF Stands, AsInNCServer
  <2>7. CASE CheckUnlocks
    <3>1. ~Locked /\ ~Locked'
      BY <2>7 DEF CheckUnlocks, Locked
    <3>. QED BY <2>6, <2>7, <3>1 DEF CheckUnlocks, configVars, requestVars
  <2>8. ASSUME \/ Quit
               \/ \E n \in Node : \/ Start(n) \/ Wake(n) \/ AnswerArrives(n) \/ HeartbeatFails(n)
                                  \/ Die(n) \/ InitArrives(n) \/ HeartbeatArrives(n)
        PROVE  AsInNCServer
    <3>1. UNCHANGED <<server_timeout, node_time, checkVars>>
      BY <2>8 DEF Quit, Start, Wake, AnswerArrives, HeartbeatFails, Die, InitArrives,
                  HeartbeatArrives, Stamp, configVars, requestVars
    <3>. QED BY <2>6, <3>1 DEF checkVars
  <2>. QED BY <2>1, <2>2, <2>3, <2>4, <2>5, <2>7, <2>8 DEF Next
<1>3. ASSUME UNCHANGED vars PROVE AsInNCServer
  <2>1. /\ UNCHANGED <<server_timeout, node_time, current_time>>
        /\ UNCHANGED <<check_pc, unchecked, timed_out>>
    BY <1>3 DEF vars, configVars, requestVars, checkVars
  <2>2. UNCHANGED all_nodes
    BY <2>1, SameTimes
  <2>. QED BY <2>1, <2>2 DEF Stands, Locked, AsInNCServer
<1>4. Spec => []TypeOK
  BY <1>1, TypeCorrect
<1>5. /\ Init => ReadInv
      /\ TimeType /\ ReadInv /\ [Next]_vars => ReadInv'
  BY ReadInductive
<1>6. TimeType /\ TimeType' /\ TypeOK /\ ReadInv /\ ReadInv' /\ [Next]_vars
        => [check_pc # "ended" => AsInNCServer]_vars
  BY <1>2, <1>3
<1>. QED BY <1>4, <1>5, <1>6, TypeInductive, PTL DEF Spec
=============================================================================
