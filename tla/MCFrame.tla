------------------------------ MODULE MCFrame ------------------------------
(* The way of a frame on small instances: the capture buffers and, beside   *)
(* them, the packing of a field, both codecs, and the window that sets them *)
(* up.  They share no state, so each is explored on its own: a behaviour is *)
(* one of the part it starts with, the others rest in their initial states. *)
EXTENDS MCCaptureBuffers, FieldPacking, NlcCodec, FrontEnd, Lz4Block

\* Two pixels as far apart as a picture allows in all three planes.
MCPixels == {<<0, 3, 0>>, <<3, 0, 2>>}

\* Mode 2 needs options "b"; windows 2 and 3 are one program, opened again.
MCGate == {<<1, "a">>, <<1, "b">>, <<2, "b">>}
MCPresets == <<1, 2>>
MCTitle == <<1, 2, 2>>

\* Bytes that come again, near and far; the last nine take the strong encoder through the
\* ways a search may leave a run, and two and three matches may lie to each other.
MCPieces == {<<1, 1, 1, 1>>, <<1, 2>>, <<2, 1, 1, 2, 1>>, <<2, 2, 1>>}
MCOnce == <<0, 1, 2, 3, 1, 1, 2, 2, 3, 3, 0, 0, 2, 1, 0>>
MCPictures ==
  {p \o q \o r \o s : p, q, r, s \in MCPieces} \cup
  {MCOnce \o MCOnce \o <<3, 2, 1>>, MCOnce \o <<3>> \o MCOnce \o <<3, 2>>} \cup
  {<<1, 2, 1, 2, 1, 2>>,
   <<1, 0, 0, 1, 0, 0, 0, 1, 0, 0, 0, 0, 1, 0, 0, 0, 0, 0, 0, 0, 0, 1, 0, 0>>,
   <<0, 0, 1, 0, 1, 0, 2, 1, 0, 0, 1, 1, 0, 1, 0, 1, 0, 2, 1, 2, 2, 0>>,
   <<1, 1, 1, 1, 1, 0, 1, 1, 1, 1, 1, 1, 1>>,
   <<1, 1, 1, 1, 1, 0, 1, 1, 1, 1, 1, 1, 1, 0>>,
   <<0, 0, 0, 0, 1, 0, 0, 0, 0, 0, 0, 0, 0, 0, 0, 0>>,
   <<1, 1, 0, 1, 1, 1, 1, 1, 0, 1, 1, 0, 1, 1, 1, 1, 1, 1>>,
   <<2, 2, 2, 2, 2, 2, 2, 2, 2, 0, 1, 2, 2, 0, 1, 2, 2, 2>>,
   <<0, 0, 1, 0, 0, 0, 0, 1, 0, 0, 1, 0, 0, 0, 1, 0, 2, 0, 1, 0, 2>>,
   <<0, 1, 0, 0, 0, 1, 0, 0, 0, 0, 1, 0, 0, 0, 0, 0, 0, 0, 0, 1, 0, 0>>,
   <<1, 1, 1, 1, 0, 1, 1, 1, 0, 1, 1, 1, 1, 1, 0, 1, 1, 1, 1, 1, 1, 1, 1, 1, 1>>,
   <<0, 0, 0, 0, 2, 0, 0, 0, 2, 0, 0, 0, 0, 2, 0, 0, 0, 0, 0, 2, 0, 0, 0, 0, 2, 2, 2>>}

VARIABLE part

framePartVars == <<part, vars, packingVars, codecVars, frontVars, blockVars>>

FrameInit ==
  /\ part \in {"buffers", "packing", "codec", "front", "block"}
  /\ Init /\ PackingInit /\ CodecInit /\ FrontInit /\ BlockInit
  /\ part # "block" => lz4Frames = CHOOSE codec \in Codecs : TRUE

FrameNext ==
  \/ /\ part = "buffers" /\ Next
     /\ UNCHANGED <<part, packingVars, codecVars, frontVars, blockVars>>
  \/ /\ part = "packing" /\ PackingNext
     /\ UNCHANGED <<part, vars, codecVars, frontVars, blockVars>>
  \/ /\ part = "codec" /\ CodecNext
     /\ UNCHANGED <<part, vars, packingVars, frontVars, blockVars>>
  \/ /\ part = "front" /\ FrontNext
     /\ UNCHANGED <<part, vars, packingVars, codecVars, blockVars>>
  \/ /\ part = "block" /\ BlockNext
     /\ UNCHANGED <<part, vars, packingVars, codecVars, frontVars>>
  \/ events = MaxEvents /\ UNCHANGED framePartVars   \* only the window has its bound

FrameSpec == FrameInit /\ [][FrameNext]_framePartVars

\* The types of all five parts.
FrameTypeOK ==
  TypeOK /\ PackingTypeOK /\ CodecTypeOK /\ FrontTypeOK /\ BlockTypeOK

=============================================================================
