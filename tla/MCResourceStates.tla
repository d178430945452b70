-------------------------- MODULE MCResourceStates --------------------------
(***************************************************************************)
(* A small instance of ResourceStates: the back buffer, a texture of two   *)
(* mips, a depth-stencil texture and a buffer.                             *)
(***************************************************************************)
EXTENDS ResourceStates, TLC

CONSTANTS back, tex, depth, buf

AllResources == {back, tex, depth, buf}
Counts == back :> 1 @@ tex :> 2 @@ depth :> 2 @@ buf :> 1
CreatedIn == back :> COMMON @@ tex :> COMMON @@ depth :> {"DEPTH_WRITE"}
             @@ buf :> {"COPY_DEST"}
DepthStencils == {depth}
Buffers == {buf}

(***************************************************************************)
(* Passes that write and read the mips together and one by one, the planes *)
(* together and one by one, and the buffer in all its roles.               *)
(***************************************************************************)
Commands == {"scene", "downsample", "filter", "present", "simulate", "indexed",
             "clear", "indirect"}
RequestsOf(c) ==
    CASE c = "scene" -> Draw(<<AsRenderTarget(tex, 0)>> \o AsDepthStencil(depth))
      [] c = "downsample" ->
            Draw(<<AsRenderTarget(tex, 1), AsShaderResource(tex, {0})>>)
      [] c = "filter" ->
            Draw(<<AsUnorderedAccess(tex, 1), AsShaderResource(depth, {0})>>)
      [] c = "present" ->
            Draw(<<AsRenderTarget(back, 0), AsShaderResource(tex, {0, 1})>>)
      [] c = "simulate" -> Draw(<<AsUnorderedAccess(buf, 0)>>)
      [] c = "indexed" -> Draw(<<AsIndexBuffer(buf), AsRenderTarget(back, 0)>>)
      [] c = "clear" -> Draw(<<ClearedPlanes(depth, {0, 1})>>)
      [] c = "indirect" ->
            DrawIndirect(<<AsVertexBuffer(buf), AsShaderResource(buf, {0}),
                              AsShaderResource(depth, {0, 1})>>, buf)

=============================================================================
