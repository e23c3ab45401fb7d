-------------------------- MODULE MCConsumerEngine --------------------------
(***************************************************************************)
(* ConsumerEngine for TLC: the topics of the runs, as sequences of entry    *)
(* sizes, which a configuration cannot spell out.                           *)
(***************************************************************************)
EXTENDS ConsumerEngine

SmallBatches == <<2, 1, 2, 1>>
FullBatch    == <<4, 1>>
PairAndOne   == <<2, 1>>
Singles      == <<1, 1>>
One          == <<1>>
Pair         == <<2>>
=============================================================================
