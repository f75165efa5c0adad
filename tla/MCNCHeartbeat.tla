---------------------------- MODULE MCNCHeartbeat -----------------------------
(***************************************************************************)
(* NCHeartbeat with files that name the least timeout, a smaller one, none *)
(* at all, or are refused for another reason.                              *)
(***************************************************************************)
EXTENDS NCHeartbeat

File(timeout) == [secret_key |-> {SecretKeyLength}, server_port |-> {}, quit_counter |-> {},
                  heartbeat_timeout |-> timeout]

MCConfigFiles == {File({}), File({0}), File({1}),
                  [File({3}) EXCEPT !.secret_key = {}],
                  [File({3}) EXCEPT !.secret_key = {31}],
                  [File({3}) EXCEPT !.server_port = {0}]}
=============================================================================
