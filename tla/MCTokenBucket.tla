---- MODULE MCTokenBucket ----
(* One chunk larger than the bucket, messages at half the rate.                *)
EXTENDS TokenBucket, TLC

CONSTANT a1

Large == a1 :> 6
====
