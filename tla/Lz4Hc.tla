--------------------------------- MODULE Lz4Hc ---------------------------------
(***************************************************************************)
(* LZ4HC_compress_generic_internal: the level chooses one of two parsers.  *)
(***************************************************************************)
EXTENDS Lz4HcParser

VARIABLES
  m1, skipped, second   (* Of the hash chain parser.                       *)

hcVars == <<allVars, m1, skipped, second>>

HashChain == INSTANCE Lz4HcChain

HcInit == ParserInit /\ HashChain!ChainInit

Optimal ==
  /\ level.strat = "lz4opt" /\ Compress
  /\ UNCHANGED <<m1, skipped, second>>

Chains ==
  /\ level.strat = "lz4hc" /\ HashChain!Compress
  /\ UNCHANGED <<level, opt, last, cur, elected>>

Returned == pc = "done" /\ UNCHANGED hcVars

HcNext == Optimal \/ Chains \/ Returned

HcSpec == HcInit /\ [][HcNext]_hcVars /\ WF_hcVars(Optimal \/ Chains)
-----------------------------------------------------------------------------
(* Both parsers elect true matches only, one behind the other, and encode  *)
(* them as Lz4Encoder does, however they shorten and exchange them: what   *)
(* holds there holds for them.                                             *)
ImplementsEncoder == Encoder!Spec

(* The loops, one in the other, end; those of the hash chain parser are    *)
(* made of goto.                                                           *)
Returns == <>(pc = "done")
==============================================================================
