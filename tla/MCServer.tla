------------------------------- MODULE MCServer -------------------------------
(* Instances of Server for TLC.                                             *)
EXTENDS Server

First_Config == [port |-> 1, token |-> 1, parser |-> 1, workers |-> 0,
                 retention |-> 1, recv |-> {"tcp"}]
Zeroes == [workers |-> 2, retention |-> 3]

Change(set) == [set |-> set, bad |-> FALSE]
Bodies == {Change([port |-> 2, recv |-> {"udp", "http"}]),
           Change([token |-> 2, workers |-> 0, retention |-> 0]),
           [set |-> [parser |-> 2], bad |-> TRUE]}

OnePost == {[ip |-> "a", allowed |-> TRUE, token |-> TRUE, fits |-> TRUE, lines |-> 1]}
Stopping == {"server", "main"}
===============================================================================
