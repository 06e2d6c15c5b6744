------------------------------- MODULE Server --------------------------------
(* The server that every handler of the application runs in.               *)

CONSTANTS
    Threads,        \* requests handled at the same time
    None            \* no value: of no row, no resident, nothing read
=============================================================================
