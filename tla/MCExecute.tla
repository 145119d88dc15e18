----------------------------- MODULE MCExecute -----------------------------
(* A small instance of Execute: three threads, any of which runs execute()  *)
(* or popen(), four calls in all, commands that succeed or fail.         *)
EXTENDS Execute

CONSTANTS t1, t2, t3

ThreeThreads == {t1, t2, t3}
Outcomes == {0, 2}
============================================================================
