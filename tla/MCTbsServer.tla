----------------------------- MODULE MCTbsServer ----------------------------
(* TbsServer with two players, one of whom may play against the server, and  *)
(* an observer.                                                              *)
EXTENDS TbsServer

CONSTANTS s1, s2

MCRoster == {<<s2, s1>>, <<s1, Ai>>}
=============================================================================
