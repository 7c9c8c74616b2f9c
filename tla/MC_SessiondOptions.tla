------------------------- MODULE MC_SessiondOptions -------------------------
(* Inputs for SessiondOptions: arguments at the edges of the checks       *)
(* (empty, octal, the largest accepted and the first refused number, a   *)
(* true and a false word, text), a configuration file of one entry and a  *)
(* command line of up to two options.                                     *)
EXTENDS SessiondOptions

MCArgs == {<<>>, <<"x">>, <<"0", "1", "0">>,
           <<"6", "5", "5", "3", "4">>, <<"6", "5", "5", "3", "5">>,
           <<"o", "n">>, <<"n", "o">>}

MCCfgNames == {"client-sock", "verbose", "daemonize",
               "event-notifier-error-number-of-bucket", "help", "bogus"}

MCCmdNames == {"client-sock", "verbose", "verbose-consumer",
               "agent-tcp-port", "help", "?"}
=============================================================================
