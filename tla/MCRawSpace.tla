------------------------------ MODULE MCRawSpace ------------------------------
(***************************************************************************)
(* An instance of RawSpace: two volumes of two blocks, the second used by  *)
(* a guest for a pool of its own, its dnodes in the second block of the    *)
(* MOS; partitions that begin at an allocation boundary and between two;   *)
(* chunks at whose ends a header may lie across.                           *)
(***************************************************************************)
EXTENDS RawSpace

ManyBases == {0, 1, 2}
ManyPackings == {{}, {"mos", "objset"}, {"header", "mos", "objset"}}
===============================================================================
