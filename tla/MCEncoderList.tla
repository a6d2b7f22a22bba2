--------------------------- MODULE MCEncoderList ---------------------------
(* The passes that are recorded: T and U are textures (U an array), Z the  *)
(* depth-stencil texture, D the destination of resolves, V, W and X are    *)
(* of shaders and copies, B and C buffers that are drawn to.               *)
EXTENDS EncoderList

T == Slot("T", None)
U == Slot("U", None)
B == Slot(None, "B")
C == Slot(None, "C")

Draw(colors) == [Pass("Render") EXCEPT !.colors = colors]
DrawZ(readonly, plane1) ==
  [Draw(<<T>>) EXCEPT !.planar = Planes, !.readonly = readonly, !.plane1 = plane1]
Clear(target) == [Pass("Clear") EXCEPT !.target = target]
ClearZ(planes) ==
  [Pass("Clear") EXCEPT !.target = Slot(DepthStencil, None), !.clear_dsv = planes]
Shader(type, read, write) == [Pass(type) EXCEPT !.read = read, !.write = write]

Draws ==
  {Draw(<<T>>),
   [Draw(<<T>>) EXCEPT !.vread = {"V"}],
   [Draw(<<T>>) EXCEPT !.write = {"V"}],
   [Draw(<<T, U>>) EXCEPT !.len = 1],
   DrawZ({}, FALSE), DrawZ({}, TRUE), DrawZ(Planes, FALSE)}

Others ==
  {Clear(T), [Clear(U) EXCEPT !.len = 1], ClearZ(Planes), ClearZ({"depth"}),
   Shader("Blit", {"V"}, {"W"}), Shader("Blit", {"T"}, {"X"}),
   Shader("Compute", {"W", "D"}, {"V"}), Shader("Compute", {DepthStencil}, {"W"}),
   [Pass("Resolve") EXCEPT !.src = "T", !.dst = "D"],
   Draw(<<B>>), Draw(<<C>>), Clear(B), Pass("SignalEvent")}

MCKinds == Draws \cup Others

=============================================================================
