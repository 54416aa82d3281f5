-------------------------- MODULE MCRunStoreReader --------------------------
(* One run without artifacts, so that the reader's eleven openings can be   *)
(* interleaved with every step of the writer.                               *)
EXTENDS RunStoreReader

CONSTANTS good, bad

MCResults == {good, bad}
MCPassing == {good}

\* Passing results only: a judgement that fails is then the empty batch.
MCJustGood == {good}
=============================================================================
