------------------------------ MODULE MCOutput ------------------------------
(* Output on a small instance; the cfg file gives the bounds.               *)
EXTENDS Output, TLC

Symmetry == Permutations(Threads)

(* Levels given for both sinks, for one and for none; each kind of file.    *)
MCSetups ==
    {[verbose |-> TRUE, level |-> 2, consoleLevel |-> None, fileLevel |-> 0,
      file |-> "rotating", header |-> TRUE],
     [verbose |-> FALSE, level |-> None, consoleLevel |-> None, fileLevel |-> None,
      file |-> "jsonl", header |-> FALSE],
     [verbose |-> TRUE, level |-> None, consoleLevel |-> 4, fileLevel |-> None,
      file |-> "plain", header |-> FALSE],
     [verbose |-> TRUE, level |-> None, consoleLevel |-> None, fileLevel |-> 2,
      file |-> "none", header |-> FALSE],
     [verbose |-> FALSE, level |-> 2, consoleLevel |-> None, fileLevel |-> None,
      file |-> "off", header |-> FALSE]}
=============================================================================
