---------------------------- MODULE MCCollectives -----------------------------
(* EMSCollectives on small programs.                                         *)
EXTENDS EMSCollectives

MCForever    == {Forever}
MixedProgram == <<"single", "critical", "single", "barrier", "master", "critical", "barrier">>
===============================================================================
