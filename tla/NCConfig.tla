------------------------------ MODULE NCConfig -------------------------------
(***************************************************************************)
(* nc_config_from_json: from a configuration file, which every host has    *)
(* its own copy of, to the configuration its program runs with, or to the  *)
(* exception that keeps it from starting.  A file is a record of optional  *)
(* values; a secret key is represented by its length.  The names and       *)
(* levels of the log files and the address are left out.                   *)
(***************************************************************************)
EXTENDS Naturals

CONSTANTS MinTimeout,      \* the least heartbeat_timeout accepted, 10 seconds in the code
          DefaultTimeout   \* the heartbeat_timeout of a file that names none, 300 seconds

ASSUME TimeoutAssumption == /\ MinTimeout \in Nat \ {0}
                            /\ DefaultTimeout \in Nat
                            /\ MinTimeout <= DefaultTimeout

SecretKeyLength == 32

\* The constructor: an exception, or the defaults.
NCConfiguration(secret_key) ==
  IF secret_key # SecretKeyLength THEN {}
  ELSE {[secret_key |-> secret_key, server_port |-> 3100,
         heartbeat_timeout |-> DefaultTimeout, quit_counter |-> 10]}

\* The value of an optional member, or what is there already.
ValueOr(member, default) == IF member = {} THEN default ELSE CHOOSE v \in member : TRUE

\* {} stands for an exception: no key or one of the wrong length, port 0, or a
\* heartbeat_timeout below the least.
nc_config_from_json(json) ==
  {config \in
     {[secret_key |-> c.secret_key,
       server_port |-> ValueOr(json.server_port, c.server_port),
       heartbeat_timeout |-> ValueOr(json.heartbeat_timeout, c.heartbeat_timeout),
       quit_counter |-> ValueOr(json.quit_counter, c.quit_counter)] :
      c \in UNION {NCConfiguration(key) : key \in json.secret_key}} :
   config.server_port >= 1 /\ config.heartbeat_timeout >= MinTimeout}
=============================================================================
