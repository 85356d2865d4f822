----------------------------- MODULE MCLibrary -----------------------------
(* Instances of Library for TLC. *)
EXTENDS Library

\* All demos of ThreadDemos.
MCDemos ==
    {"mutex", "recursive", "timed", "guard", "unique_lock", "sync_queue", "once",
     "promise", "future", "task", "atomic", "thread1", "thread2"}
=============================================================================
