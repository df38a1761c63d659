------------------------------ MODULE MCSimSocket ------------------------------
(* The frames of the run: a control word that fails halfway and the status *)
(* behind it, a renumbering that gives both slaves one address, and a      *)
(* broadcast with logical memory.                                          *)
EXTENDS SimSocket

MCFrames ==
  { << [cmd |-> "FPWR", adp |-> 1, ctrl |-> 4], [cmd |-> "FPRD", adp |-> 1] >>,
    << [cmd |-> "APWR", adp |-> 65535, address |-> 1], [cmd |-> "APRD", adp |-> 65535],
       [cmd |-> "LRW", x |-> 0, len |-> 1, byte |-> 1] >>,
    << [cmd |-> "BWR", ctrl |-> 4], [cmd |-> "BRD"],
       [cmd |-> "LRD", x |-> 0, len |-> 1], [cmd |-> "NOP"] >> }
=============================================================================
