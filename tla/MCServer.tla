------------------------------ MODULE MCServer ------------------------------
(***************************************************************************)
(* Instance of Server for TLC.                                             *)
(***************************************************************************)
EXTENDS Server

\* A good command line, and those that miss one thing each: caches of less
\* than a blob among them.
MCSettings ==
    {[upstream |-> TRUE, disk |-> d, hot |-> h] : d \in {0, 1, 2}, h \in {0, 1, 2}}
      \cup {[upstream |-> FALSE, disk |-> 0, hot |-> 2]}
=============================================================================
