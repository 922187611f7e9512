------------------------- MODULE MCModelDownloader -------------------------
(* A commit of three files for TLC: weights and, after the tokenizer, the    *)
(* only one of them that resolve_hf_model looks for, its configuration.     *)
EXTENDS ModelDownloader

ThreeSizes == <<3, 1, 1>>
=============================================================================
