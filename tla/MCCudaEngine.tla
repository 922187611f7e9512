---------------------------- MODULE MCCudaEngine ----------------------------
(* Small engines for TLC, with pages of two tokens.                         *)
EXTENDS CudaEngine

\* The third prompt equals the first, the second is a prefix of both that ends
\* inside a page, and the fourth comes with an embedding.
SharedPrompts  == << <<1, 2, 1>>, <<1>>, <<1, 2, 1>>, <<3>> >>
TwoTokensFirst == <<2, 1, 1, 1>>
ThirdFirst     == <<0, 0, 1, 0>>

\* Two short prompts that want more pages as they are decoded, and a long one
\* that starts as the first does.
GrowingPrompts == << <<1>>, <<1, 2>>, <<1, 2, 1, 1, 1>> >>
FourTokens     == <<4, 3, 1>>
ByAge          == <<0, 0, 0>>
=============================================================================
