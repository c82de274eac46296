---------------------------- MODULE MCVideoPipeline ----------------------------
(***************************************************************************)
(* Access units of one or two NALUs, in every framing: lengths 1, 2 and    *)
(* Base, with zeros inside and an emulation prevention byte.               *)
(***************************************************************************)
EXTENDS VideoPipeline

Nalus == {<<1>>, <<3>>, <<1, 2>>, <<1, 0, 0, 3>>, <<2, 0, 1, 1>>}

NaluLists == {<<nalu>> : nalu \in Nalus} \cup (Nalus \X Nalus)

MCUnits == [nalus : NaluLists, framing : {"avc", "long", "short", "cut"}]
===============================================================================
