---------------------------- MODULE MCCodedBody ----------------------------
(* Bodies of up to three chunks of one or two bytes, under every framing,  *)
(* every place of a cut and every single spoiled line; the limit on sizes  *)
(* is under the largest body.                                              *)
EXTENDS CodedBody
=============================================================================
