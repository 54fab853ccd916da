---------------------------- MODULE MCStreamTask ----------------------------
(* A marker of three bytes over two letters; its first letter is unique in it, *)
(* as `d` is in `data: [DONE]`.                                               *)
EXTENDS StreamTask
MCMarker == <<1, 2, 2>>
=============================================================================
