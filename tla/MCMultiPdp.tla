----------------------------- MODULE MCMultiPdp -----------------------------
(* MultiPdp with two interfaces, which contend for the one work item, and  *)
(* one serial line.                                                        *)
EXTENDS MultiPdp
=============================================================================
