---------------------------- MODULE MCGuiSurface ----------------------------
(* GuiSurface with a u32 of five bits: a picture as large as a frame may be,  *)
(* one that only a buffer holds, one whose stride overflows, and an empty one.*)
EXTENDS GuiSurface

GuiDims == {<<1, 2>>, <<1, 3>>, <<8, 1>>, <<0, 1>>}
GuiStub == [w \in 1 .. N |-> IF w = 1 THEN <<1, 2>> ELSE <<1, 3>>]
=============================================================================
