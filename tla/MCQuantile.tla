----------------------------- MODULE MCQuantile ------------------------------
(* Instances of Quantile for TLC: the median, the quartiles, and the two   *)
(* shares settings.py also lets pass.                                      *)
EXTENDS Quantile

MCLists == {<<50>>, <<0>>, <<1>>, <<25, 75>>}
MCMedian == {<<50>>}
=============================================================================
