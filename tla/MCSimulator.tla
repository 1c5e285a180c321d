---------------------------- MODULE MCSimulator ----------------------------
(* Two processors and three jobs of two pages, so that a processor is      *)
(* reloaded while the other one pages, with fewer frames than pages wanted.*)
EXTENDS Simulator

MCWalks == {<<0>>, <<0, 1>>}
=============================================================================
