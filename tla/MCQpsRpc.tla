------------------------------ MODULE MCQpsRpc ------------------------------
(* A small instance of QpsRpc for TLC: two calls a round.                  *)
EXTENDS QpsRpc

AsyncConfigs == {<<1, 2>>}
=============================================================================
